---------------------------- MODULE Spec2Model ----------------------------
(***************************************************************************)
(* Chat subsystem of the buzzaz backend (src/routes/chat.js) over the      *)
(* Postgres tables of src/db/schema.sql.                                   *)
(*                                                                         *)
(* Every HTTP request is a slot of `req`.  A handler is an async function:  *)
(* it runs from one `await pg.query(...)` to the next without interruption, *)
(* and other requests run in between.  One action of the model is therefore *)
(* one query together with the synchronous code that follows it up to the   *)
(* next query (or up to the response).                                      *)
(*                                                                         *)
(* Strings that the code computes with (user ids, conversation ids, message *)
(* texts) are sequences of UTF-16 code units.  A nullable SQL column is a   *)
(* sequence of length 0 (NULL) or 1 (the value).                            *)
(***************************************************************************)
EXTENDS Integers, Sequences, FiniteSets, TLC

(***************************************************************************)
(* Bounds of the model.                                                    *)
(***************************************************************************)
MaxClock == 1
MaxRequests == 2
MaxTextLen == 3

(***************************************************************************)
(* Strings.                                                                *)
(***************************************************************************)
\* '_' as a UTF-16 code unit.
ChUnderscore == 95

NULL == << >>
Some(v) == << v >>

\* The user ids of the model: "a", "ab", "b" (one is a prefix of another,
\* so that the string comparison of sort() has all of its cases).
Uids == { <<97>>, <<97, 98>>, <<98>> }

\* A request body without participantId.
MissingId == << >>

Roles == {"brand", "content_creator", "influencer", "ugc_creator", "admin", "support"}
NoUser == "none"

\* x < y for strings, as Array.prototype.sort() without a comparator orders
\* them: by UTF-16 code units, a proper prefix first.
RECURSIVE StrLess(_, _)
StrLess(x, y) ==
  IF y = << >> THEN FALSE
  ELSE IF x = << >> THEN TRUE
  ELSE IF Head(x) # Head(y) THEN Head(x) < Head(y)
  ELSE StrLess(Tail(x), Tail(y))

\* [x, y].sort()
SortPair(x, y) == IF StrLess(y, x) THEN <<y, x>> ELSE <<x, y>>

\* [x, y].join('_')
JoinPair(p) == p[1] \o <<ChUnderscore>> \o p[2]

\* The unsorted derivation: a conversation id that depends on who calls.
ConversationIdUnsorted(currentUserId, participantId) ==
  JoinPair(<<currentUserId, participantId>>)

\* const conversationId = [currentUserId, participantId].sort().join('_')
ConversationId(currentUserId, participantId) ==
  JoinPair(SortPair(currentUserId, participantId))

\* The role check that only accepts a brand as the caller.
ValidCombinationsBrandCallerOnly(currentUserRole, participantRole) ==
  currentUserRole = "brand" /\ participantRole \in {"influencer", "ugc_creator"}

\* The role check that looks at the caller's role only.
ValidCombinationsCallerOnly(currentUserRole, participantRole) ==
  currentUserRole \in {"brand", "influencer", "ugc_creator"}

\* validCombinations.some(combo => combo)
ValidCombinations(currentUserRole, participantRole) ==
  \/ (currentUserRole = "brand" /\ participantRole \in {"influencer", "ugc_creator"})
  \/ (currentUserRole \in {"influencer", "ugc_creator"} /\ participantRole = "brand")

(***************************************************************************)
(* filterSensitiveContent: four global regex replacements, in order.       *)
(* A regex is a tree: [k |-> "set", cs] one character of a class,           *)
(* [k |-> "wb"] the assertion \b, [k |-> "cat", rs] a concatenation,        *)
(* [k |-> "alt", rs] an alternation, [k |-> "rep", r, lo, hi] a greedy      *)
(* quantifier.                                                             *)
(***************************************************************************)
Digit == 48..57
Upper == 65..90
Lower == 97..122
\* \s of a JavaScript regex, which is also what String.prototype.trim strips
WhiteSpace == {9, 10, 11, 12, 13, 32, 160, 5760, 8232, 8233, 8239, 8287, 12288, 65279}
                \cup (8192..8202)
\* \w
WordChar == Digit \cup Upper \cup Lower \cup {95}

Set(cs) == [k |-> "set", cs |-> cs]
Cat(rs) == [k |-> "cat", rs |-> rs]
Alt(rs) == [k |-> "alt", rs |-> rs]
Rep(r, lo, hi) == [k |-> "rep", r |-> r, lo |-> lo, hi |-> hi, open |-> FALSE]
AtLeast(r, lo) == [k |-> "rep", r |-> r, lo |-> lo, hi |-> lo, open |-> TRUE]
Opt(r) == Rep(r, 0, 1)
WordBoundary == [k |-> "wb"]

\* A literal under the flag i: each letter in both cases.
BothCases(c) ==
  IF c \in Lower THEN {c, c - 32} ELSE IF c \in Upper THEN {c, c + 32} ELSE {c}
LiteralI(str) == Cat([j \in 1..Len(str) |-> Set(BothCases(str[j]))])

\* Ends(r, s, i): the positions at which a match of r that starts at position
\* i of s can end, in the order in which a backtracking matcher tries them
\* (so the head is the match that String.prototype.replace takes).
RECURSIVE Ends(_, _, _), CatEnds(_, _, _, _), CatOver(_, _, _, _, _),
          AltEnds(_, _, _, _), RepEnds(_, _, _, _), RepOver(_, _, _, _, _)
Ends(r, s, i) ==
  CASE r.k = "set" -> IF i <= Len(s) /\ s[i] \in r.cs THEN <<i + 1>> ELSE << >>
    [] r.k = "wb"  -> IF ((i > 1 /\ s[i - 1] \in WordChar) # (i <= Len(s) /\ s[i] \in WordChar))
                        THEN <<i>> ELSE << >>
    [] r.k = "cat" -> CatEnds(r.rs, 1, s, i)
    [] r.k = "alt" -> AltEnds(r.rs, 1, s, i)
    [] r.k = "rep" -> RepEnds(r, s, i, 0)
CatEnds(rs, j, s, i) ==
  IF j > Len(rs) THEN <<i>> ELSE CatOver(Ends(rs[j], s, i), 1, rs, j, s)
CatOver(es, n, rs, j, s) ==
  IF n > Len(es) THEN << >>
  ELSE CatEnds(rs, j + 1, s, es[n]) \o CatOver(es, n + 1, rs, j, s)
AltEnds(rs, j, s, i) ==
  IF j > Len(rs) THEN << >> ELSE Ends(rs[j], s, i) \o AltEnds(rs, j + 1, s, i)
RepEnds(r, s, i, n) ==
  (IF r.open \/ n < r.hi THEN RepOver(Ends(r.r, s, i), 1, r, s, n) ELSE << >>)
    \o (IF n >= r.lo THEN <<i>> ELSE << >>)
RepOver(es, m, r, s, n) ==
  IF m > Len(es) THEN << >>
  ELSE RepEnds(r, s, es[m], n + 1) \o RepOver(es, m + 1, r, s, n)

\* '*****'
Mask == <<42, 42, 42, 42, 42>>

\* s.replace(r, '*****') for a regex r with the flag g, from position i on.
RECURSIVE ReplaceFrom(_, _, _)
ReplaceFrom(r, s, i) ==
  IF i > Len(s) THEN << >>
  ELSE LET es == Ends(r, s, i)
       IN IF es # << >> /\ es[1] > i
            THEN Mask \o ReplaceFrom(r, s, es[1])
            ELSE <<s[i]>> \o ReplaceFrom(r, s, i + 1)
Replace(r, s) == ReplaceFrom(r, s, 1)

\* /\b[A-Za-z0-9._%+-]+@[A-Za-z0-9.-]+\.[A-Z|a-z]{2,}\b/g
emailRegex ==
  Cat(<< WordBoundary,
         AtLeast(Set(Upper \cup Lower \cup Digit \cup {46, 95, 37, 43, 45}), 1),
         Set({64}),
         AtLeast(Set(Upper \cup Lower \cup Digit \cup {46, 45}), 1),
         Set({46}),
         AtLeast(Set(Upper \cup Lower \cup {124}), 2),
         WordBoundary >>)

\* [-.\s]?
Separator == Opt(Set({45, 46} \cup WhiteSpace))

\* /(\+?\d{1,4}[-.\s]?)?\(?\d{1,4}\)?[-.\s]?\d{1,4}[-.\s]?\d{1,9}/g
phoneRegex ==
  Cat(<< Opt(Cat(<< Opt(Set({43})), Rep(Set(Digit), 1, 4), Separator >>)),
         Opt(Set({40})), Rep(Set(Digit), 1, 4), Opt(Set({41})), Separator,
         Rep(Set(Digit), 1, 4), Separator,
         Rep(Set(Digit), 1, 9) >>)

\* /whatsapp|wa\.me|t\.me|telegram/gi
whatsappRegex ==
  Alt(<< LiteralI(<<119, 104, 97, 116, 115, 97, 112, 112>>),
         LiteralI(<<119, 97, 46, 109, 101>>),
         LiteralI(<<116, 46, 109, 101>>),
         LiteralI(<<116, 101, 108, 101, 103, 114, 97, 109>>) >>)

\* /@[a-zA-Z0-9._]+/g
socialRegex ==
  Cat(<< Set({64}), AtLeast(Set(Lower \cup Upper \cup Digit \cup {46, 95}), 1) >>)

filterSensitiveContent(message) ==
  Replace(socialRegex, Replace(whatsappRegex, Replace(phoneRegex, Replace(emailRegex, message))))

\* String.prototype.trim
RECURSIVE TrimStart(_)
TrimStart(s) ==
  IF s # << >> /\ Head(s) \in WhiteSpace THEN TrimStart(Tail(s)) ELSE s
RECURSIVE TrimEnd(_)
TrimEnd(s) ==
  IF s # << >> /\ s[Len(s)] \in WhiteSpace THEN TrimEnd(SubSeq(s, 1, Len(s) - 1)) ELSE s
Trim(s) == TrimEnd(TrimStart(s))

(***************************************************************************)
(* State.                                                                  *)
(***************************************************************************)
VARIABLES
  users,          \* table users: uid -> role, NoUser when there is no row
  conversations,  \* table conversations: a set of rows
  messages,       \* table messages: a set of rows
  log,            \* the ids of the messages in the order of their INSERTs
  now,            \* the last value read from the clock
  req,            \* the requests in flight and their responses
  nreq,           \* number of chat and profile requests that may still start
  rawText,        \* the text given to the content filter
  filteredText,   \* the filter's output for rawText
  refilteredText, \* the filter's output for filteredText
  accounts,       \* table users by email: NoAccount or uid, password_hash, is_active, last_login_at
  resets,         \* table password_resets: a set of rows
  env,            \* process.env: NODE_ENV, EMAIL_USER and EMAIL_PASS
  authReq,        \* the auth requests in flight and their responses
  authLeft,       \* number of auth requests that may still start
  influencers,            \* table influencers: the uids that have a row
  instagramProfiles,      \* table instagram_profiles: the uids that have a row
  instagramDetailedData   \* table instagram_detailed_data: the uids that have a row

vars ==
  <<users, conversations, messages, log, now, req, nreq,
    rawText, filteredText, refilteredText,
    accounts, resets, env, authReq, authLeft,
    influencers, instagramProfiles, instagramDetailedData>>

\* The state of the chat routes, and the state of a run of the content filter
\* on its own.
chatVars == <<users, conversations, messages, log, now, req, nreq>>
filterVars == <<rawText, filteredText, refilteredText>>

\* No text is being filtered on its own.
FilterIdle == rawText = << >> /\ filteredText = NULL /\ refilteredText = NULL

\* The state of the auth routes.
authVars == <<accounts, resets, env, authReq, authLeft>>

\* The profile tables of the influencer routes.
profileVars == <<influencers, instagramProfiles, instagramDetailedData>>

\* No user has profile data.
ProfilesEmpty == influencers = {} /\ instagramProfiles = {} /\ instagramDetailedData = {}

Slots == {1, 2}

NoResponse ==
  [status |-> 0, error |-> "", conversationId |-> << >>, conversation |-> NULL,
   message |-> NULL, isFiltered |-> FALSE, messages |-> << >>, conversations |-> << >>,
   hasCompletedProfile |-> FALSE, role |-> "", requiresOnboarding |-> FALSE]

IdleRequest ==
  [op |-> "none", pc |-> "idle", serial |-> 0, uid |-> << >>, role |-> "",
   participantId |-> << >>, participantRole |-> "", conversationId |-> << >>,
   text |-> << >>, page |-> 0, limit |-> 0,
   conversationData |-> NULL, messageData |-> NULL,
   newRole |-> "", fullName |-> << >>, instagramUsername |-> << >>,
   profRes |-> 0, infRes |-> 0, res |-> NoResponse]

Free(s) == req[s].pc \in {"idle", "done"}

\* A new request takes the lowest free slot (which slot holds a request has
\* no meaning).
Accept(s) == Free(s) /\ \A y \in Slots : y < s => ~Free(y)

\* Date.now() / new Date(): the clock never runs backwards; a read returns
\* the value of the last read or a later one.
ClockReads(last) == { t \in {last, last + 1} : t <= MaxClock }

\* res.status(code).json({ message })
Fail(r, code, msg) ==
  [r EXCEPT !.pc = "done", !.serial = 0, !.conversationData = NULL, !.messageData = NULL,
            !.res = [NoResponse EXCEPT !.status = code, !.error = msg]]

\* SELECT ... FROM conversations WHERE id = $1
ConvRows(id) == { c \in conversations : c.id = id }

\* array.includes(x)
Includes(seq, x) == \E j \in 1..Len(seq) : seq[j] = x

\* INSERT without a primary key on conversations.id: the row is always added.
InsertConversationNoKey(row) == TRUE

\* INSERT INTO conversations succeeds unless the primary key (id) is taken.
InsertConversationOk(row) == ConvRows(row.id) = {}

\* INSERT INTO messages succeeds unless the primary key (id) is taken.
InsertMessageOk(row) == \A m \in messages : m.id # row.id

\* The conversation object of a response built from a stored row
\* (last_message_sender is not part of it).
ConversationView(row) ==
  [id |-> row.id, participants |-> row.participants,
   participantDetails |-> row.participantDetails,
   lastMessage |-> row.lastMessage, lastMessageTime |-> row.lastMessageTime,
   createdAt |-> row.createdAt, updatedAt |-> row.updatedAt]

\* conversationData of lines 96-113
NewConversation(id, currentUserId, currentUserRole, participantId, participantRole, t1, t2) ==
  [id |-> id,
   participants |-> <<currentUserId, participantId>>,
   participantDetails |-> (currentUserId :> currentUserRole) @@ (participantId :> participantRole),
   lastMessage |-> NULL, lastMessageTime |-> NULL, lastMessageSender |-> NULL,
   createdAt |-> t1, updatedAt |-> t2]

(***************************************************************************)
(* authMiddleware: the caller's users row is read (and created with role   *)
(* content_creator when missing) into req.user.  The token is valid.       *)
(***************************************************************************)
authMiddleware(s) ==
  /\ req[s].pc = "auth"
  /\ LET uid == req[s].uid
         role == IF users[uid] = NoUser THEN "content_creator" ELSE users[uid]
     IN /\ users' = [users EXCEPT ![uid] = role]
        /\ req' = [req EXCEPT ![s].pc = "handler", ![s].role = role]
  /\ UNCHANGED <<conversations, messages, log, now, nreq, filterVars, authVars, profileVars>>

(***************************************************************************)
(* POST /auth/dev/seed-user for the email of an existing user: the role is *)
(* overwritten.                                                            *)
(***************************************************************************)
SeedUser(uid, role) ==
  /\ users[uid] # NoUser
  /\ users[uid] # role
  /\ users' = [users EXCEPT ![uid] = role]
  /\ UNCHANGED <<conversations, messages, log, now, req, nreq, filterVars, authVars, profileVars>>

(***************************************************************************)
(* POST /conversations                                                     *)
(***************************************************************************)
PostConversation(s, uid, participantId) ==
  /\ Accept(s)
  /\ nreq > 0
  /\ nreq' = nreq - 1
  /\ req' = [req EXCEPT ![s] =
       [IdleRequest EXCEPT !.op = "create", !.pc = "auth", !.serial = nreq, !.uid = uid,
                           !.participantId = participantId]]
  /\ UNCHANGED <<users, conversations, messages, log, now, filterVars, authVars, profileVars>>

\* An outcome of the checks of a handler: the response that ends the request,
\* or Pass.
Pass == [status |-> 0, error |-> ""]
Reject(code, msg) == [status |-> code, error |-> msg]

\* The checks of lines 47-75 with the self-conversation check left out.
CreateChecksNoSelfCheck(currentUserId, currentUserRole, participantId) ==
  IF participantId = MissingId
    THEN Reject(400, "Participant ID is required")
  ELSE IF users[participantId] = NoUser
    THEN Reject(404, "Participant not found")
  ELSE IF ~ValidCombinations(currentUserRole, users[participantId])
    THEN Reject(403, "Chat is only allowed between brands and influencers/UGC creators")
  ELSE Pass

\* Lines 47-75: the checks on participantId, the directory lookup and the
\* role check, in the order of the code.
CreateChecks(currentUserId, currentUserRole, participantId) ==
  IF participantId = MissingId
    THEN Reject(400, "Participant ID is required")
  ELSE IF participantId = currentUserId
    THEN Reject(400, "Cannot create conversation with yourself")
  ELSE IF users[participantId] = NoUser
    THEN Reject(404, "Participant not found")
  ELSE IF ~ValidCombinations(currentUserRole, users[participantId])
    THEN Reject(403, "Chat is only allowed between brands and influencers/UGC creators")
  ELSE Pass

\* Lines 44-78: the checks, and the derivation of the id.
CreateValidate(s) ==
  /\ req[s].op = "create" /\ req[s].pc = "handler"
  /\ LET r == req[s]
         out == CreateChecks(r.uid, r.role, r.participantId)
     IN req' = [req EXCEPT ![s] =
          IF out # Pass
            THEN Fail(r, out.status, out.error)
            ELSE [r EXCEPT !.pc = "existing",
                           !.participantRole = users[r.participantId],
                           !.conversationId = ConversationId(r.uid, r.participantId)]]
  /\ UNCHANGED <<users, conversations, messages, log, now, nreq, filterVars, authVars, profileVars>>

\* Lines 80-113 written as an upsert: an existing row is overwritten with the
\* conversation built for this request.
CreateSelectExistingUpsert(s) ==
  /\ req[s].op = "create" /\ req[s].pc = "existing"
  /\ \E t1 \in ClockReads(now) : \E t2 \in ClockReads(t1) :
       LET r == req[s]
           row == NewConversation(r.conversationId, r.uid, r.role, r.participantId,
                                  r.participantRole, t1, t2)
       IN /\ conversations' = (conversations \ ConvRows(r.conversationId)) \cup {row}
          /\ req' = [req EXCEPT ![s] =
               [r EXCEPT !.pc = "done", !.serial = 0,
                 !.res = [NoResponse EXCEPT !.status = 200,
                           !.conversationId = r.conversationId,
                           !.conversation = Some(ConversationView(row))]]]
          /\ now' = t2
  /\ UNCHANGED <<users, messages, log, nreq, filterVars, authVars, profileVars>>

\* Lines 80-113: SELECT the row with that id; answer with it, or build the
\* new conversation (two readings of the clock).
CreateSelectExisting(s) ==
  /\ req[s].op = "create" /\ req[s].pc = "existing"
  /\ LET r == req[s]
         existing == ConvRows(r.conversationId)
     IN IF existing # {}
          THEN /\ req' = [req EXCEPT ![s] =
                    [r EXCEPT !.pc = "done", !.serial = 0,
                      !.res = [NoResponse EXCEPT !.status = 200,
                                !.conversationId = r.conversationId,
                                !.conversation = Some(ConversationView(CHOOSE c \in existing : TRUE))]]]
               /\ now' = now
          ELSE \E t1 \in ClockReads(now) : \E t2 \in ClockReads(t1) :
               /\ req' = [req EXCEPT ![s] =
                    [r EXCEPT !.pc = "insert",
                      !.conversationData = Some(NewConversation(r.conversationId,
                          r.uid, r.role, r.participantId, r.participantRole, t1, t2))]]
               /\ now' = t2
  /\ UNCHANGED <<users, conversations, messages, log, nreq, filterVars, authVars, profileVars>>

\* Lines 115-133: INSERT; a violated primary key throws and the catch block
\* answers 500.
CreateInsert(s) ==
  /\ req[s].op = "create" /\ req[s].pc = "insert"
  /\ LET r == req[s]
         row == r.conversationData[1]
     IN IF InsertConversationOk(row)
          THEN /\ conversations' = conversations \cup {row}
               /\ req' = [req EXCEPT ![s] =
                    [r EXCEPT !.pc = "done", !.serial = 0, !.conversationData = NULL,
                      !.res = [NoResponse EXCEPT !.status = 201,
                                !.conversationId = r.conversationId,
                                !.conversation = Some(ConversationView(row))]]]
          ELSE /\ conversations' = conversations
               /\ req' = [req EXCEPT ![s] =
                    Fail(r, 500, "Server error while creating conversation")]
  /\ UNCHANGED <<users, messages, log, now, nreq, filterVars, authVars, profileVars>>

(***************************************************************************)
(* POST /conversations/:conversationId/messages                            *)
(***************************************************************************)
\* Raw message texts of the model: " ", " hi", " @a".
RawTexts == { <<32>>, <<32, 104, 105>>, <<32, 64, 97>> }

\* filterSensitiveContent on the trimmed texts of the model, computed once.
Filtered == [m \in { Trim(x) : x \in RawTexts } |-> filterSensitiveContent(m)]

PostMessage(s, uid, conversationId, text) ==
  /\ Accept(s)
  /\ nreq > 0
  /\ nreq' = nreq - 1
  /\ req' = [req EXCEPT ![s] =
       [IdleRequest EXCEPT !.op = "send", !.pc = "auth", !.serial = nreq, !.uid = uid,
                           !.conversationId = conversationId, !.text = text]]
  /\ UNCHANGED <<users, conversations, messages, log, now, filterVars, authVars, profileVars>>

\* messageData with the trimmed text stored as it was received.
NewMessageRaw(serial, conversationId, currentUserId, trimmed, timestamp) ==
  [id |-> serial, conversationId |-> conversationId, senderId |-> currentUserId,
   message |-> trimmed, timestamp |-> timestamp,
   isFiltered |-> (Filtered[trimmed] # trimmed)]

\* messageData whose id is `msg_${Date.now()}` without the random suffix.
NewMessageIdByClock(serial, conversationId, currentUserId, trimmed, timestamp) ==
  [id |-> timestamp, conversationId |-> conversationId, senderId |-> currentUserId,
   message |-> Filtered[trimmed], timestamp |-> timestamp,
   isFiltered |-> (Filtered[trimmed] # trimmed)]

\* messageData of lines 189-196.  The id, `msg_${Date.now()}_${random}` with a
\* random suffix of nine base-36 digits, is the serial number of the request:
\* the ids of two requests differ.
NewMessage(serial, conversationId, currentUserId, trimmed, timestamp) ==
  [id |-> serial, conversationId |-> conversationId, senderId |-> currentUserId,
   message |-> Filtered[trimmed], timestamp |-> timestamp,
   isFiltered |-> (Filtered[trimmed] # trimmed)]

\* The checks of lines 171-183 with the membership check left out.
SendChecksNoMembership(currentUserId, conversationId, message) ==
  IF Len(Trim(message)) = 0
    THEN Reject(400, "Message content is required")
  ELSE IF ConvRows(conversationId) = {}
    THEN Reject(404, "Conversation not found")
  ELSE Pass

\* Lines 171-183: the check on the text, SELECT of the conversation and the
\* membership check, in the order of the code.
SendChecks(currentUserId, conversationId, message) ==
  IF Len(Trim(message)) = 0
    THEN Reject(400, "Message content is required")
  ELSE IF ConvRows(conversationId) = {}
    THEN Reject(404, "Conversation not found")
  ELSE IF ~Includes((CHOOSE c \in ConvRows(conversationId) : TRUE).participants, currentUserId)
    THEN Reject(403, "You are not a participant in this conversation")
  ELSE Pass

\* Lines 167-196: the checks, the filter and the new message (one reading of
\* the clock for its timestamp).
SendValidate(s) ==
  /\ req[s].op = "send" /\ req[s].pc = "handler"
  /\ LET r == req[s]
         out == SendChecks(r.uid, r.conversationId, r.text)
     IN IF out # Pass
          THEN /\ req' = [req EXCEPT ![s] = Fail(r, out.status, out.error)]
               /\ now' = now
          ELSE \E t \in ClockReads(now) :
               /\ req' = [req EXCEPT ![s] =
                    [r EXCEPT !.pc = "insert",
                      !.messageData = Some(NewMessage(r.serial, r.conversationId, r.uid, Trim(r.text), t))]]
               /\ now' = t
  /\ UNCHANGED <<users, conversations, messages, log, nreq, filterVars, authVars, profileVars>>

\* Lines 198-209 with the INSERT left out: the handler goes on to the UPDATE.
SendInsertSkipped(s) ==
  /\ req[s].op = "send" /\ req[s].pc = "insert"
  /\ req' = [req EXCEPT ![s].pc = "update"]
  /\ UNCHANGED <<users, conversations, messages, log, now, nreq, filterVars, authVars, profileVars>>

\* Lines 198-209: INSERT INTO messages.
SendInsert(s) ==
  /\ req[s].op = "send" /\ req[s].pc = "insert"
  /\ LET r == req[s]
         row == r.messageData[1]
     IN IF InsertMessageOk(row)
          THEN /\ messages' = messages \cup {row}
               /\ log' = Append(log, row.id)
               /\ req' = [req EXCEPT ![s].pc = "update"]
          ELSE /\ messages' = messages
               /\ log' = log
               /\ req' = [req EXCEPT ![s] = Fail(r, 500, "Server error while sending message")]
  /\ UNCHANGED <<users, conversations, now, nreq, filterVars, authVars, profileVars>>

\* The UPDATE of lines 211-214 without `last_message_time = $2`.
UpdateLastMessageKeepTime(c, filteredMessage, timestamp, currentUserId) ==
  [c EXCEPT !.lastMessage = Some(filteredMessage),
            !.lastMessageSender = Some(currentUserId), !.updatedAt = timestamp]

\* The UPDATE of lines 211-214 with `created_at = $2` among its assignments.
UpdateLastMessageAndCreated(c, filteredMessage, timestamp, currentUserId) ==
  [c EXCEPT !.lastMessage = Some(filteredMessage), !.lastMessageTime = Some(timestamp),
            !.lastMessageSender = Some(currentUserId), !.updatedAt = timestamp,
            !.createdAt = timestamp]

\* The UPDATE of lines 211-214 applied to one row.
UpdateLastMessage(c, filteredMessage, timestamp, currentUserId) ==
  [c EXCEPT !.lastMessage = Some(filteredMessage), !.lastMessageTime = Some(timestamp),
            !.lastMessageSender = Some(currentUserId), !.updatedAt = timestamp]

\* Lines 211-216: UPDATE conversations ... WHERE id = $4, and the response.
SendUpdate(s) ==
  /\ req[s].op = "send" /\ req[s].pc = "update"
  /\ LET r == req[s]
         m == r.messageData[1]
     IN /\ conversations' =
             { IF c.id = r.conversationId
                 THEN UpdateLastMessage(c, m.message, m.timestamp, r.uid)
                 ELSE c : c \in conversations }
        /\ req' = [req EXCEPT ![s] =
             [r EXCEPT !.pc = "done", !.serial = 0, !.messageData = NULL,
               !.res = [NoResponse EXCEPT !.status = 201, !.message = Some(m),
                                          !.isFiltered = m.isFiltered]]]
  /\ UNCHANGED <<users, messages, log, now, nreq, filterVars, authVars, profileVars>>

\* Lines 218-221: a query of the handler is rejected by the database (the
\* connection is lost, the statement times out); nothing is written, the
\* catch block answers 500.  StorageFails(s, pc) is the failure of the query
\* that request s is about to run at pc: the SELECT of line 172 ("handler"),
\* the INSERT of lines 198-209 ("insert"), the UPDATE of lines 211-214 ("update").
StorageFails(s, pc) ==
  /\ req[s].op = "send" /\ req[s].pc = pc
  /\ req' = [req EXCEPT ![s] = Fail(req[s], 500, "Server error while sending message")]
  /\ UNCHANGED <<users, conversations, messages, log, now, nreq, filterVars, authVars, profileVars>>

(***************************************************************************)
(* GET /conversations/:conversationId/messages                             *)
(***************************************************************************)
\* const { page = 1, limit = 50 } = req.query
DefaultPage == 1
DefaultLimit == 50
Pages == {DefaultPage, 2}
Limits == {1, DefaultLimit}

GetMessages(s, uid, conversationId, page, limit) ==
  /\ Accept(s)
  /\ nreq > 0
  /\ nreq' = nreq - 1
  /\ req' = [req EXCEPT ![s] =
       [IdleRequest EXCEPT !.op = "list", !.pc = "auth", !.serial = nreq, !.uid = uid,
                           !.conversationId = conversationId, !.page = page, !.limit = limit]]
  /\ UNCHANGED <<users, conversations, messages, log, now, filterVars, authVars, profileVars>>

\* Lines 231-239: SELECT of the conversation and the membership check.
ListSelectConversation(s) ==
  /\ req[s].op = "list" /\ req[s].pc = "handler"
  /\ LET r == req[s]
         rows == ConvRows(r.conversationId)
     IN req' = [req EXCEPT ![s] =
          IF rows = {}
            THEN Fail(r, 404, "Conversation not found")
          ELSE IF ~Includes((CHOOSE c \in rows : TRUE).participants, r.uid)
            THEN Fail(r, 403, "You are not a participant in this conversation")
          ELSE [r EXCEPT !.pc = "messages",
                         !.conversationData = Some(CHOOSE c \in rows : TRUE)]]
  /\ UNCHANGED <<users, conversations, messages, log, now, nreq, filterVars, authVars, profileVars>>

\* The orders in which ORDER BY timestamp DESC can return a set of rows
\* (rows with equal timestamps come in any order).
OrderByTimestampDesc(rows) ==
  { q \in [1..Cardinality(rows) -> rows] :
      /\ \A i, j \in 1..Cardinality(rows) : i # j => q[i] # q[j]
      /\ \A i, j \in 1..Cardinality(rows) : i < j => q[i].timestamp >= q[j].timestamp }

\* LIMIT n
Limit(q, n) == SubSeq(q, 1, IF n < Len(q) THEN n ELSE Len(q))

\* The rows as the query returned them, newest first.
NoReverse(q) == q

\* Array.prototype.reverse
Reverse(q) == [i \in 1..Len(q) |-> q[Len(q) + 1 - i]]

\* Lines 241-246: the rows the query returns for the request; `page` is not
\* used.
PageWindow(q, page, limit) == Limit(q, limit)

\* Lines 241-256: SELECT of the messages and the response.
ListSelectMessages(s) ==
  /\ req[s].op = "list" /\ req[s].pc = "messages"
  /\ LET r == req[s]
         rows == { m \in messages : m.conversationId = r.conversationId }
     IN \E q \in OrderByTimestampDesc(rows) :
          req' = [req EXCEPT ![s] =
            [r EXCEPT !.pc = "done", !.serial = 0, !.conversationData = NULL,
              !.res = [NoResponse EXCEPT !.status = 200,
                        !.messages = Reverse(PageWindow(q, r.page, r.limit)),
                        !.conversation = Some(ConversationView(r.conversationData[1]))]]]
  /\ UNCHANGED <<users, conversations, messages, log, now, nreq, filterVars, authVars, profileVars>>

(***************************************************************************)
(* GET /conversations                                                      *)
(***************************************************************************)
GetConversations(s, uid) ==
  /\ Accept(s)
  /\ nreq > 0
  /\ nreq' = nreq - 1
  /\ req' = [req EXCEPT ![s] =
       [IdleRequest EXCEPT !.op = "convs", !.pc = "auth", !.serial = nreq, !.uid = uid]]
  /\ UNCHANGED <<users, conversations, messages, log, now, filterVars, authVars, profileVars>>

\* WHERE participants[1] = $1: the conversations the user opened.
FirstOfParticipants(c, currentUserId) == c.participants[1] = currentUserId

\* WHERE $1 = ANY(participants)
AnyOfParticipants(c, currentUserId) == Includes(c.participants, currentUserId)

\* The orders in which ORDER BY updated_at DESC can return a set of rows.
OrderByUpdatedAtDesc(rows) ==
  { q \in [1..Cardinality(rows) -> rows] :
      /\ \A i, j \in 1..Cardinality(rows) : i # j => q[i] # q[j]
      /\ \A i, j \in 1..Cardinality(rows) : i < j => q[i].updatedAt >= q[j].updatedAt }

\* Lines 140-156: the SELECT and the response.
ListConversations(s) ==
  /\ req[s].op = "convs" /\ req[s].pc = "handler"
  /\ LET r == req[s]
         rows == { c \in conversations : AnyOfParticipants(c, r.uid) }
     IN \E q \in OrderByUpdatedAtDesc(rows) :
          req' = [req EXCEPT ![s] =
            [r EXCEPT !.pc = "done", !.serial = 0,
              !.res = [NoResponse EXCEPT !.status = 200,
                        !.conversations = [i \in 1..Len(q) |-> ConversationView(q[i])]]]]
  /\ UNCHANGED <<users, conversations, messages, log, now, nreq, filterVars, authVars, profileVars>>

(***************************************************************************)
(* GET /conversations/:conversationId                                      *)
(***************************************************************************)
GetConversation(s, uid, conversationId) ==
  /\ Accept(s)
  /\ nreq > 0
  /\ nreq' = nreq - 1
  /\ req' = [req EXCEPT ![s] =
       [IdleRequest EXCEPT !.op = "conv", !.pc = "auth", !.serial = nreq, !.uid = uid,
                           !.conversationId = conversationId]]
  /\ UNCHANGED <<users, conversations, messages, log, now, filterVars, authVars, profileVars>>

\* Lines 265-287: SELECT of the conversation, the membership check and the
\* response.
SelectConversation(s) ==
  /\ req[s].op = "conv" /\ req[s].pc = "handler"
  /\ LET r == req[s]
         rows == ConvRows(r.conversationId)
     IN req' = [req EXCEPT ![s] =
          IF rows = {}
            THEN Fail(r, 404, "Conversation not found")
          ELSE IF ~Includes((CHOOSE c \in rows : TRUE).participants, r.uid)
            THEN Fail(r, 403, "You are not a participant in this conversation")
          ELSE [r EXCEPT !.pc = "done", !.serial = 0,
                  !.res = [NoResponse EXCEPT !.status = 200,
                            !.conversation = Some(ConversationView(CHOOSE c \in rows : TRUE))]]]
  /\ UNCHANGED <<users, conversations, messages, log, now, nreq, filterVars, authVars, profileVars>>

(***************************************************************************)
(* filterSensitiveContent applied to a text, and to its own output.        *)
(***************************************************************************)
\* The texts of SpecFilter: every text of at most MaxTextLen characters out
\* of "a", "@", "1", ".", and texts with an email address, a phone number, a
\* messaging app, an @handle, none of them, and an address followed by digits.
FilterAlphabet == {97, 64, 49, 46}
ShortTexts == UNION { [1..n -> FilterAlphabet] : n \in 0..MaxTextLen }
SampleTexts ==
  { <<109, 101, 32, 116, 64, 101, 120, 46, 99, 111, 109>>,        \* "me t@ex.com"
    <<99, 97, 108, 108, 32, 53, 53, 53, 45, 49, 50, 51, 45, 52, 53, 54, 55>>,
                                                                  \* "call 555-123-4567"
    <<111, 110, 32, 84, 101, 108, 101, 103, 114, 97, 109>>,       \* "on Telegram"
    <<103, 114, 101, 97, 116, 32, 105, 100, 101, 97, 33>>,        \* "great idea!"
    <<105, 103, 32, 64, 97, 46, 98>>,                             \* "ig @a.b"
    <<97, 64, 45, 46, 97, 97, 49, 50, 51>>,                       \* "a@-.aa123"
    <<97, 64, 45, 98, 46, 99, 100, 49, 32, 50, 32, 51>> }         \* "a@-b.cd1 2 3"
FilterInputs == ShortTexts \cup SampleTexts

\* filterSensitiveContent(rawText)
FilterText ==
  /\ filteredText = NULL
  /\ filteredText' = Some(filterSensitiveContent(rawText))
  /\ UNCHANGED <<rawText, refilteredText, chatVars, authVars, profileVars>>

\* filterSensitiveContent applied to the text it returned.
FilterAgain ==
  /\ filteredText # NULL
  /\ refilteredText = NULL
  /\ refilteredText' = Some(filterSensitiveContent(filteredText[1]))
  /\ UNCHANGED <<rawText, filteredText, chatVars, authVars, profileVars>>

(***************************************************************************)
(* Auth routes: POST /auth/login and POST /auth/forgot-password over the   *)
(* users and password_resets tables.  JWT_SECRET is configured.            *)
(***************************************************************************)
\* The addresses of the model, as normalizeEmail leaves them, and a string
\* that isEmail rejects.
Emails == {"a@x.co", "m@x.co", "i@x.co", "n@x.co"}
InvalidEmail == "not-an-email"
isEmail(email) == email \in Emails

Passwords == {"", "pw"}

\* bcrypt.hash and bcrypt.compare: a hash matches the password it was made of.
BcryptHash(password) == <<"bcrypt", password>>
BcryptCompare(password, hash) == hash = BcryptHash(password)

\* Date.now() + 60 * 60 * 1000
HourMs == 3600000

AuthNoResponse ==
  [status |-> 0, message |-> "", errors |-> FALSE, token |-> NULL,
   devResetLink |-> NULL, emailError |-> FALSE]

AuthIdleRequest ==
  [op |-> "none", pc |-> "idle", serial |-> 0, email |-> "", password |-> "",
   user |-> NULL, resetToken |-> NULL, res |-> AuthNoResponse]

\* No auth request is made.
AuthIdle ==
  /\ accounts = [e \in Emails |-> NULL]
  /\ resets = {}
  /\ env = [production |-> TRUE, mailConfigured |-> FALSE]
  /\ authReq = [s \in Slots |-> AuthIdleRequest]
  /\ authLeft = 0

AuthFree(s) == authReq[s].pc \in {"idle", "done"}
AuthAccept(s) == AuthFree(s) /\ \A y \in Slots : y < s => ~AuthFree(y)

\* res.status(code).json({ message })
AuthFail(r, code, msg) ==
  [r EXCEPT !.pc = "done", !.serial = 0, !.user = NULL, !.resetToken = NULL,
            !.res = [AuthNoResponse EXCEPT !.status = code, !.message = msg]]

\* res.status(400).json({ errors: errors.array() })
AuthInvalid(r) ==
  [r EXCEPT !.pc = "done", !.serial = 0,
            !.res = [AuthNoResponse EXCEPT !.status = 400, !.errors = TRUE]]

\* SELECT ... FROM users WHERE email = $1 LIMIT 1
findUserByEmail(email) == accounts[email]

PostLogin(s, email, password) ==
  /\ AuthAccept(s)
  /\ authLeft > 0
  /\ authLeft' = authLeft - 1
  /\ authReq' = [authReq EXCEPT ![s] =
       [AuthIdleRequest EXCEPT !.op = "login", !.pc = "handler", !.serial = authLeft,
                               !.email = email, !.password = password]]
  /\ UNCHANGED <<accounts, resets, env, chatVars, filterVars, profileVars>>

\* login without the test for a missing password hash: bcrypt.compare throws
\* on a hash that is null.
loginChecksNoPasswordNotSet(user, password) ==
  IF user = NULL \/ ~user[1].isActive
    THEN "Invalid credentials"
  ELSE IF user[1].passwordHash = NULL \/ ~BcryptCompare(password, user[1].passwordHash[1])
    THEN "Invalid credentials"
  ELSE "ok"

\* login, lines 622-635 of the service: the error thrown, or "ok".
loginChecks(user, password) ==
  IF user = NULL \/ ~user[1].isActive
    THEN "Invalid credentials"
  ELSE IF user[1].passwordHash = NULL
    THEN "PASSWORD_NOT_SET"
  ELSE IF ~BcryptCompare(password, user[1].passwordHash[1])
    THEN "Invalid credentials"
  ELSE "ok"

\* POST /login up to the UPDATE: validation, findUserByEmail, the checks of
\* login, and the catch block of the route.
LoginFind(s) ==
  /\ authReq[s].op = "login" /\ authReq[s].pc = "handler"
  /\ LET r == authReq[s]
         user == findUserByEmail(r.email)
         out == loginChecks(user, r.password)
     IN authReq' = [authReq EXCEPT ![s] =
          IF ~isEmail(r.email)
            THEN AuthInvalid(r)
          ELSE IF out = "PASSWORD_NOT_SET"
            THEN AuthFail(r, 422, "Password not set for this account. Please reset your password.")
          ELSE IF out # "ok"
            THEN AuthFail(r, 401, "Invalid credentials, please try again")
          ELSE [r EXCEPT !.pc = "update", !.user = user]]
  /\ UNCHANGED <<accounts, resets, env, authLeft, chatVars, filterVars, profileVars>>

\* UPDATE users SET last_login_at = NOW() WHERE uid = $1, and the token.
LoginUpdate(s) ==
  /\ authReq[s].op = "login" /\ authReq[s].pc = "update"
  /\ LET r == authReq[s]
     IN \E t \in ClockReads(now) :
          /\ accounts' = [e \in Emails |->
               IF accounts[e] # NULL /\ accounts[e][1].uid = r.user[1].uid
                 THEN Some([accounts[e][1] EXCEPT !.lastLoginAt = Some(t)])
                 ELSE accounts[e]]
          /\ now' = t
          /\ authReq' = [authReq EXCEPT ![s] =
               [r EXCEPT !.pc = "done", !.serial = 0, !.user = NULL,
                 !.res = [AuthNoResponse EXCEPT !.status = 200, !.message = "Login successful",
                                               !.token = Some(r.user[1].uid)]]]
  /\ UNCHANGED <<resets, env, authLeft, users, conversations, messages, log, req, nreq, filterVars, profileVars>>

PostForgotPassword(s, email) ==
  /\ AuthAccept(s)
  /\ authLeft > 0
  /\ authLeft' = authLeft - 1
  /\ authReq' = [authReq EXCEPT ![s] =
       [AuthIdleRequest EXCEPT !.op = "forgot", !.pc = "handler", !.serial = authLeft,
                               !.email = email]]
  /\ UNCHANGED <<accounts, resets, env, chatVars, filterVars, profileVars>>

\* Lines 388-396: validation, findUserByEmail, the answer for an unknown
\* address.
ForgotFind(s) ==
  /\ authReq[s].op = "forgot" /\ authReq[s].pc = "handler"
  /\ LET r == authReq[s]
         user == findUserByEmail(r.email)
     IN authReq' = [authReq EXCEPT ![s] =
          IF ~isEmail(r.email)
            THEN AuthInvalid(r)
          ELSE IF user = NULL
            THEN [r EXCEPT !.pc = "done", !.serial = 0,
                   !.res = [AuthNoResponse EXCEPT !.status = 200,
                             !.message = "If the email exists, a reset link has been sent."]]
          ELSE [r EXCEPT !.pc = "insert", !.user = user]]
  /\ UNCHANGED <<accounts, resets, env, authLeft, chatVars, filterVars, profileVars>>

\* Lines 397-402: the token (crypto.randomBytes(32): the tokens of two
\* requests differ) and INSERT INTO password_resets.
ForgotInsert(s) ==
  /\ authReq[s].op = "forgot" /\ authReq[s].pc = "insert"
  /\ LET r == authReq[s]
     IN \E t \in ClockReads(now) :
          /\ resets' = resets \cup
               {[token |-> r.serial, userId |-> r.user[1].uid, email |-> r.email,
                 expiresAt |-> t + HourMs, used |-> FALSE]}
          /\ now' = t
          /\ authReq' = [authReq EXCEPT ![s] =
               [r EXCEPT !.pc = "mail", !.resetToken = Some(r.serial)]]
  /\ UNCHANGED <<accounts, env, authLeft, users, conversations, messages, log, req, nreq, filterVars, profileVars>>

\* Lines 429-434: responsePayload.
ForgotResponse(token, emailSent, emailError) ==
  [AuthNoResponse EXCEPT
     !.status = 200,
     !.message = "If the email exists, a reset link has been sent.",
     !.devResetLink = IF ~emailSent /\ ~env.production THEN Some(token) ELSE NULL,
     !.emailError = ~emailSent /\ ~env.production /\ emailError]

\* Lines 403-434: sendMail when EMAIL_USER and EMAIL_PASS are set (it succeeds
\* or throws), and the response.
ForgotRespond(s) ==
  /\ authReq[s].op = "forgot" /\ authReq[s].pc = "mail"
  /\ LET r == authReq[s]
     IN \E emailSent \in (IF env.mailConfigured THEN BOOLEAN ELSE {FALSE}) :
          authReq' = [authReq EXCEPT ![s] =
            [r EXCEPT !.pc = "done", !.serial = 0, !.user = NULL, !.resetToken = NULL,
              !.res = ForgotResponse(r.resetToken[1], emailSent,
                                     env.mailConfigured /\ ~emailSent)]]
  /\ UNCHANGED <<accounts, resets, env, authLeft, chatVars, filterVars, profileVars>>

(***************************************************************************)
(* POST /auth/reset-password                                               *)
(***************************************************************************)
\* The new passwords of the model: one that isLength({ min: 6 }) rejects and
\* two that it accepts.
NewPasswords == {"short", "secret1", "secret2"}

PostResetPassword(s, token, newPassword) ==
  /\ AuthAccept(s)
  /\ authLeft > 0
  /\ authLeft' = authLeft - 1
  /\ authReq' = [authReq EXCEPT ![s] =
       [AuthIdleRequest EXCEPT !.op = "reset", !.pc = "handler", !.serial = authLeft,
                               !.resetToken = Some(token), !.password = newPassword]]
  /\ UNCHANGED <<accounts, resets, env, chatVars, filterVars, profileVars>>

\* SELECT ... FROM password_resets WHERE token = $1 LIMIT 1
ResetRows(token) == { row \in resets : row.token = token }

\* Lines 449-465: the validation and the checks on the row, at clock time t.
resetChecks(token, newPassword, t) ==
  IF Len(newPassword) < 6
    THEN "invalid"
  ELSE IF ResetRows(token) = {}
    THEN "Invalid or expired token"
  ELSE IF (CHOOSE row \in ResetRows(token) : TRUE).used
    THEN "Token has already been used"
  ELSE IF (CHOOSE row \in ResetRows(token) : TRUE).expiresAt < t
    THEN "Token has expired"
  ELSE "ok"

\* Lines 449-465: validation, SELECT of the row, the checks (one reading of
\* the clock).
ResetFind(s) ==
  /\ authReq[s].op = "reset" /\ authReq[s].pc = "handler"
  /\ LET r == authReq[s]
     IN \E t \in ClockReads(now) :
          LET out == resetChecks(r.resetToken[1], r.password, t)
          IN /\ now' = (IF out \in {"ok", "Token has expired"} THEN t ELSE now)
             /\ authReq' = [authReq EXCEPT ![s] =
                  IF out = "invalid"
                    THEN AuthInvalid(r)
                  ELSE IF out # "ok"
                    THEN AuthFail(r, 400, out)
                  ELSE [r EXCEPT !.pc = "password",
                          !.user = Some(CHOOSE row \in ResetRows(r.resetToken[1]) : TRUE)]]
  /\ UNCHANGED <<accounts, resets, env, authLeft, users, conversations, messages, log, req, nreq,
                 filterVars, profileVars>>

\* Lines 466-472: bcrypt.hash and UPDATE users SET password_hash = $1,
\* last_login_at = NULL WHERE uid = $2 (resetRow.user_id).
ResetUpdateUser(s) ==
  /\ authReq[s].op = "reset" /\ authReq[s].pc = "password"
  /\ LET r == authReq[s]
     IN /\ accounts' = [e \in Emails |->
             IF accounts[e] # NULL /\ accounts[e][1].uid = r.user[1].userId
               THEN Some([accounts[e][1] EXCEPT !.passwordHash = Some(BcryptHash(r.password)),
                                                !.lastLoginAt = NULL])
               ELSE accounts[e]]
        /\ authReq' = [authReq EXCEPT ![s].pc = "used"]
  /\ UNCHANGED <<resets, env, authLeft, chatVars, filterVars, profileVars>>

\* Lines 473-474: UPDATE password_resets SET used = TRUE WHERE token = $1, and
\* the response.
ResetMarkUsed(s) ==
  /\ authReq[s].op = "reset" /\ authReq[s].pc = "used"
  /\ LET r == authReq[s]
     IN /\ resets' = { IF row.token = r.resetToken[1] THEN [row EXCEPT !.used = TRUE] ELSE row :
                         row \in resets }
        /\ authReq' = [authReq EXCEPT ![s] =
             [r EXCEPT !.pc = "done", !.serial = 0, !.user = NULL,
               !.res = [AuthNoResponse EXCEPT !.status = 200,
                         !.message = "Password has been reset successfully"]]]
  /\ UNCHANGED <<accounts, env, authLeft, chatVars, filterVars, profileVars>>

(***************************************************************************)
(* Onboarding of influencers: PUT /role and GET /profile-status of         *)
(* routes/ugc.js, and POST /validate-apify, GET /profile and POST / of the *)
(* influencer routes.  A table is the set of the uids that have a row.     *)
(***************************************************************************)

\* requireRole('influencer'): a content_creator passes as well.
requireRole(allowed, role) ==
  \/ role = "content_creator" /\ allowed \in {"influencer", "ugc_creator"}
  \/ role = allowed

\* saveInstagramProfileData: INSERT INTO instagram_profiles ... ON CONFLICT (uid) DO UPDATE
saveInstagramProfileData(uid) == instagramProfiles \cup {uid}

\* res.json(body) of a handler of the profile routes
Answer(r, body) == [r EXCEPT !.pc = "done", !.res = body]

(***************************************************************************)
(* PUT /role                                                               *)
(***************************************************************************)
NewRoles == {"influencer", "ugc_creator", "ugc", "brand"}

PutRole(s, uid, newRole) ==
  /\ Accept(s)
  /\ nreq > 0
  /\ nreq' = nreq - 1
  /\ req' = [req EXCEPT ![s] =
       [IdleRequest EXCEPT !.op = "role", !.pc = "auth", !.serial = nreq, !.uid = uid,
                           !.newRole = newRole]]
  /\ UNCHANGED <<users, conversations, messages, log, now, filterVars, authVars, profileVars>>

\* The checks of the handler, then UPDATE users SET role = $1 WHERE uid = $2.
RoleUpdate(s) ==
  /\ req[s].op = "role"
  /\ req[s].pc = "handler"
  /\ LET r == req[s]
         mappedRole == IF r.newRole = "ugc" THEN "ugc_creator" ELSE r.newRole
     IN IF r.role # "content_creator"
        THEN /\ req' = [req EXCEPT ![s] = Fail(r, 400,
                  "Role selection not allowed. Current role is not content_creator.")]
             /\ UNCHANGED users
        ELSE IF r.newRole \notin {"influencer", "ugc_creator", "ugc"}
        THEN /\ req' = [req EXCEPT ![s] = Fail(r, 400,
                  "Invalid role selection. Choose influencer or ugc_creator.")]
             /\ UNCHANGED users
        ELSE /\ users' = [users EXCEPT ![r.uid] = mappedRole]
             /\ req' = [req EXCEPT ![s] = Answer(r,
                  [NoResponse EXCEPT !.status = 200, !.role = mappedRole])]
  /\ UNCHANGED <<conversations, messages, log, now, nreq, filterVars, authVars, profileVars>>

(***************************************************************************)
(* GET /profile-status                                                     *)
(***************************************************************************)
GetProfileStatus(s, uid) ==
  /\ Accept(s)
  /\ nreq > 0
  /\ nreq' = nreq - 1
  /\ req' = [req EXCEPT ![s] =
       [IdleRequest EXCEPT !.op = "status", !.pc = "auth", !.serial = nreq, !.uid = uid]]
  /\ UNCHANGED <<users, conversations, messages, log, now, filterVars, authVars, profileVars>>

\* The body of the response.
ProfileStatus(userRole, hasCompletedProfile) ==
  [NoResponse EXCEPT !.status = 200, !.hasCompletedProfile = hasCompletedProfile,
                     !.role = userRole,
                     !.requiresOnboarding =
                        userRole \in {"influencer", "ugc_creator"} /\ ~hasCompletedProfile]

\* An influencer: SELECT uid FROM instagram_profiles WHERE uid = $1; any
\* other role has completed its profile.
StatusSelectProfile(s) ==
  /\ req[s].op = "status"
  /\ req[s].pc = "handler"
  /\ LET r == req[s]
     IN IF r.role # "influencer"
        THEN req' = [req EXCEPT ![s] = Answer(r, ProfileStatus(r.role, TRUE))]
        ELSE IF r.uid \in instagramProfiles
        THEN req' = [req EXCEPT ![s] = Answer(r, ProfileStatus(r.role, TRUE))]
        ELSE req' = [req EXCEPT ![s].pc = "detailed"]
  /\ UNCHANGED <<users, conversations, messages, log, now, nreq, filterVars, authVars, profileVars>>

\* The fallback: SELECT uid FROM instagram_detailed_data WHERE uid = $1
StatusSelectDetailed(s) ==
  /\ req[s].op = "status"
  /\ req[s].pc = "detailed"
  /\ LET r == req[s]
     IN req' = [req EXCEPT ![s] =
          Answer(r, ProfileStatus(r.role, r.uid \in instagramDetailedData))]
  /\ UNCHANGED <<users, conversations, messages, log, now, nreq, filterVars, authVars, profileVars>>

(***************************************************************************)
(* GET /influencer/profile                                                 *)
(***************************************************************************)
GetProfile(s, uid) ==
  /\ Accept(s)
  /\ nreq > 0
  /\ nreq' = nreq - 1
  /\ req' = [req EXCEPT ![s] =
       [IdleRequest EXCEPT !.op = "profile", !.pc = "auth", !.serial = nreq, !.uid = uid]]
  /\ UNCHANGED <<users, conversations, messages, log, now, filterVars, authVars, profileVars>>

\* rowCount of SELECT ... WHERE uid = $1 LIMIT 1
RowCount(table, uid) == IF uid \in table THEN 1 ELSE 0

\* SELECT * FROM instagram_profiles WHERE uid = $1
ProfileSelectInstagram(s) ==
  /\ req[s].op = "profile"
  /\ req[s].pc = "handler"
  /\ req' = [req EXCEPT ![s].pc = "influencers",
                        ![s].profRes = RowCount(instagramProfiles, req[s].uid)]
  /\ UNCHANGED <<users, conversations, messages, log, now, nreq, filterVars, authVars, profileVars>>

\* SELECT * FROM influencers WHERE uid = $1
ProfileSelectInfluencer(s) ==
  /\ req[s].op = "profile"
  /\ req[s].pc = "influencers"
  /\ req' = [req EXCEPT ![s].pc = "users",
                        ![s].infRes = RowCount(influencers, req[s].uid)]
  /\ UNCHANGED <<users, conversations, messages, log, now, nreq, filterVars, authVars, profileVars>>

\* The outcome of the handler from its three results.
ProfileChecks(profRes, infRes, userRes, userRole) ==
  IF userRes > 0 /\ userRole = "influencer" /\ profRes = 0 /\ infRes = 0
  THEN Reject(404, "Influencer profile not found")
  ELSE IF userRes = 0 /\ profRes = 0 /\ infRes = 0
  THEN Reject(404, "Influencer not found")
  ELSE Pass

\* SELECT ... FROM users WHERE uid = $1, and the response; the 404 of an
\* influencer without profile data (the user exists) carries
\* requiresOnboarding: true.
ProfileSelectUser(s) ==
  /\ req[s].op = "profile"
  /\ req[s].pc = "users"
  /\ LET r == req[s]
         userRes == IF users[r.uid] = NoUser THEN 0 ELSE 1
         userRole == IF userRes > 0 THEN users[r.uid] ELSE ""
         check == ProfileChecks(r.profRes, r.infRes, userRes, userRole)
     IN IF check # Pass
        THEN req' = [req EXCEPT ![s] = Answer(r,
               [NoResponse EXCEPT !.status = check.status, !.error = check.error,
                                  !.requiresOnboarding = userRes > 0])]
        ELSE req' = [req EXCEPT ![s] = Answer(r, [NoResponse EXCEPT !.status = 200])]
  /\ UNCHANGED <<users, conversations, messages, log, now, nreq, filterVars, authVars, profileVars>>

(***************************************************************************)
(* POST /influencer: the submit of the onboarding wizard                   *)
(***************************************************************************)
FullNames == { <<97>>, <<97, 108>> }

PostInfluencer(s, uid, fullName) ==
  /\ Accept(s)
  /\ nreq > 0
  /\ nreq' = nreq - 1
  /\ req' = [req EXCEPT ![s] =
       [IdleRequest EXCEPT !.op = "createProfile", !.pc = "auth", !.serial = nreq,
                           !.uid = uid, !.fullName = fullName]]
  /\ UNCHANGED <<users, conversations, messages, log, now, filterVars, authVars, profileVars>>

\* requireRole, the validation of fullName, then
\* INSERT INTO influencers ... ON CONFLICT (uid) DO UPDATE
InfluencerUpsert(s) ==
  /\ req[s].op = "createProfile"
  /\ req[s].pc = "handler"
  /\ LET r == req[s]
     IN IF ~requireRole("influencer", r.role)
        THEN /\ req' = [req EXCEPT ![s] = Fail(r, 403, "Access denied. One of these roles required: influencer.")]
             /\ UNCHANGED influencers
        ELSE IF Len(r.fullName) < 2
        THEN /\ req' = [req EXCEPT ![s] = Fail(r, 400, "Validation failed")]
             /\ UNCHANGED influencers
        ELSE /\ influencers' = influencers \cup {r.uid}
             /\ req' = [req EXCEPT ![s].pc = "instagram"]
  /\ UNCHANGED <<users, conversations, messages, log, now, nreq, filterVars, authVars,
                 instagramProfiles, instagramDetailedData>>

\* saveInstagramProfileData(uid, ...) and the response
InfluencerSaveInstagram(s) ==
  /\ req[s].op = "createProfile"
  /\ req[s].pc = "instagram"
  /\ instagramProfiles' = saveInstagramProfileData(req[s].uid)
  /\ req' = [req EXCEPT ![s] = Answer(req[s], [NoResponse EXCEPT !.status = 200])]
  /\ UNCHANGED <<users, conversations, messages, log, now, nreq, filterVars, authVars,
                 influencers, instagramDetailedData>>

(***************************************************************************)
(* POST /influencer/validate-apify                                         *)
(***************************************************************************)
InstagramUsernames == { << >>, <<97>> }

\* What scrapeInstagramComplete can return: no data, data without a profile,
\* data with a profile.
ScrapeOutcomes == {"failed", "noProfile", "profile"}

PostValidateApify(s, uid, instagramUsername) ==
  /\ Accept(s)
  /\ nreq > 0
  /\ nreq' = nreq - 1
  /\ req' = [req EXCEPT ![s] =
       [IdleRequest EXCEPT !.op = "validateApify", !.pc = "auth", !.serial = nreq,
                           !.uid = uid, !.instagramUsername = instagramUsername]]
  /\ UNCHANGED <<users, conversations, messages, log, now, filterVars, authVars, profileVars>>

\* requireRole, the validation of instagramUsername, then the call of
\* scrapeInstagramComplete.
ValidateApifyChecks(s) ==
  /\ req[s].op = "validateApify"
  /\ req[s].pc = "handler"
  /\ LET r == req[s]
     IN IF ~requireRole("influencer", r.role)
        THEN req' = [req EXCEPT ![s] = Fail(r, 403, "Access denied. One of these roles required: influencer.")]
        ELSE IF Len(r.instagramUsername) < 1
        THEN req' = [req EXCEPT ![s] = Fail(r, 400, "Validation failed")]
        ELSE req' = [req EXCEPT ![s].pc = "scrape"]
  /\ UNCHANGED <<users, conversations, messages, log, now, nreq, filterVars, authVars, profileVars>>

\* The scraper has answered: without data the response is sent; a profile
\* is persisted with saveInstagramProfileData.
ValidateApifyPersist(s, data) ==
  /\ req[s].op = "validateApify"
  /\ req[s].pc = "scrape"
  /\ LET r == req[s]
     IN IF data = "failed"
        THEN /\ req' = [req EXCEPT ![s] = Answer(r, [NoResponse EXCEPT !.status = 200])]
             /\ UNCHANGED instagramProfiles
        ELSE /\ instagramProfiles' =
                  IF data = "profile" THEN saveInstagramProfileData(r.uid) ELSE instagramProfiles
             /\ req' = [req EXCEPT ![s].pc = "connection"]
  /\ UNCHANGED <<users, conversations, messages, log, now, nreq, filterVars, authVars,
                 influencers, instagramDetailedData>>

\* updateInstagramConnection and the response
ValidateApifyRespond(s) ==
  /\ req[s].op = "validateApify"
  /\ req[s].pc = "connection"
  /\ req' = [req EXCEPT ![s] = Answer(req[s], [NoResponse EXCEPT !.status = 200])]
  /\ UNCHANGED <<users, conversations, messages, log, now, nreq, filterVars, authVars, profileVars>>

(***************************************************************************)
(* Initial states and specifications.                                      *)
(***************************************************************************)
UA == <<97>>
UAB == <<97, 98>>
UB == <<98>>

Directory(ra, rab, rb) ==
  [u \in Uids |-> IF u = UA THEN ra ELSE IF u = UAB THEN rab ELSE rb]

\* Spec: conversations are created, by users whose roles stay as registered.
\* Empty stores; users a and ab registered with any role, b with role
\* ugc_creator or not registered.
Init ==
  /\ users \in { Directory(ra, rab, rb) :
                   ra \in {"brand", "influencer"}, rab \in Roles, rb \in {NoUser, "ugc_creator"} }
  /\ conversations = {}
  /\ messages = {}
  /\ log = << >>
  /\ now = 0
  /\ req = [s \in Slots |-> IdleRequest]
  /\ nreq = MaxRequests
  /\ ProfilesEmpty
  /\ AuthIdle
  /\ FilterIdle

Next ==
  \/ \E s \in Slots : authMiddleware(s)
  \/ \E s \in Slots, u \in Uids, p \in Uids \cup {MissingId} : PostConversation(s, u, p)
  \/ \E s \in Slots : CreateValidate(s)
  \/ \E s \in Slots : CreateSelectExisting(s)
  \/ \E s \in Slots : CreateInsert(s)

Spec == Init /\ [][Next]_vars

\* SpecRoles: as Spec, with seed-user requests that change the role of ab.
InitRoles ==
  /\ users = Directory("brand", "influencer", "ugc_creator")
  /\ conversations = {}
  /\ messages = {}
  /\ log = << >>
  /\ now = 0
  /\ req = [s \in Slots |-> IdleRequest]
  /\ nreq = MaxRequests
  /\ ProfilesEmpty
  /\ AuthIdle
  /\ FilterIdle

NextRoles ==
  \/ \E s \in Slots : authMiddleware(s)
  \/ \E s \in Slots, p \in {<<UA, UAB>>, <<UAB, UA>>} : PostConversation(s, p[1], p[2])
  \/ \E s \in Slots : CreateValidate(s)
  \/ \E s \in Slots : CreateSelectExisting(s)
  \/ \E s \in Slots : CreateInsert(s)
  \/ \E role \in Roles : SeedUser(UAB, role)

SpecRoles == InitRoles /\ [][NextRoles]_vars

\* SpecChat: a brand (a), an influencer (ab) and a UGC creator (b) ask for
\* the conversation of a and ab, send messages to it and read them.
ChatId == ConversationId(UA, UAB)

\* The conversation as a opened it at time 0, and a message sent to it before
\* the requests of the model: " hi" by a at time 0.
ChatConversation == NewConversation(ChatId, UA, "brand", UAB, "influencer", 0, 0)
FirstMessage == NewMessage(MaxRequests + 1, ChatId, UA, Trim(<<32, 104, 105>>), 0)

\* The stores SpecChat starts from: the empty stores, and the conversation
\* with that message.
ChatStores ==
  { [conversations |-> {}, messages |-> {}, log |-> << >>],
    [conversations |-> {UpdateLastMessage(ChatConversation, FirstMessage.message,
                                          FirstMessage.timestamp, FirstMessage.senderId)},
     messages |-> {FirstMessage}, log |-> <<FirstMessage.id>>] }

InitChat ==
  /\ users = Directory("brand", "influencer", "ugc_creator")
  /\ \E st \in ChatStores :
       /\ conversations = st.conversations
       /\ messages = st.messages
       /\ log = st.log
  /\ now = 0
  /\ req = [s \in Slots |-> IdleRequest]
  /\ nreq = MaxRequests
  /\ ProfilesEmpty
  /\ AuthIdle
  /\ FilterIdle

NextChat ==
  \/ \E s \in Slots : authMiddleware(s)
  \/ \E s \in Slots, p \in {<<UA, UAB>>, <<UAB, UA>>} : PostConversation(s, p[1], p[2])
  \/ \E s \in Slots : CreateValidate(s)
  \/ \E s \in Slots : CreateSelectExisting(s)
  \/ \E s \in Slots : CreateInsert(s)
  \/ \E s \in Slots, u \in Uids, text \in RawTexts : PostMessage(s, u, ChatId, text)
  \/ \E s \in Slots : SendValidate(s)
  \/ \E s \in Slots : SendInsert(s)
  \/ \E s \in Slots : SendUpdate(s)
  \/ \E s \in Slots, u \in Uids, page \in Pages, limit \in Limits :
       GetMessages(s, u, ChatId, page, limit)
  \/ \E s \in Slots : ListSelectConversation(s)
  \/ \E s \in Slots : ListSelectMessages(s)

SpecChat == InitChat /\ [][NextChat]_vars

\* SpecList: an influencer (ab) shares one conversation with brand a and one
\* with brand b; the three send messages and list their conversations.
ListId == ConversationId(UB, UAB)
ListConversation == NewConversation(ListId, UB, "brand", UAB, "influencer", 0, 0)

\* The stores SpecList starts from: the empty stores, and the two
\* conversations as they were opened.
ListStores ==
  { [conversations |-> {}],
    [conversations |-> {ChatConversation, ListConversation}] }

InitList ==
  /\ users = Directory("brand", "influencer", "brand")
  /\ \E st \in ListStores : conversations = st.conversations
  /\ messages = {}
  /\ log = << >>
  /\ now = 0
  /\ req = [s \in Slots |-> IdleRequest]
  /\ nreq = MaxRequests
  /\ ProfilesEmpty
  /\ AuthIdle
  /\ FilterIdle

NextList ==
  \/ \E s \in Slots : authMiddleware(s)
  \/ \E s \in Slots, p \in {<<UA, UAB>>, <<UAB, UB>>} : PostConversation(s, p[1], p[2])
  \/ \E s \in Slots : CreateValidate(s)
  \/ \E s \in Slots : CreateSelectExisting(s)
  \/ \E s \in Slots : CreateInsert(s)
  \/ \E s \in Slots, c \in {ChatId, ListId} : PostMessage(s, UAB, c, <<32, 104, 105>>)
  \/ \E s \in Slots : SendValidate(s)
  \/ \E s \in Slots : SendInsert(s)
  \/ \E s \in Slots : SendUpdate(s)
  \/ \E s \in Slots, u \in Uids : GetConversations(s, u)
  \/ \E s \in Slots : ListConversations(s)

SpecList == InitList /\ [][NextList]_vars

\* SpecFilter: the content filter runs on a text and on its output; no chat
\* request is made.
InitFilter ==
  /\ rawText \in FilterInputs
  /\ filteredText = NULL
  /\ refilteredText = NULL
  /\ users = Directory("brand", "influencer", "ugc_creator")
  /\ conversations = {}
  /\ messages = {}
  /\ log = << >>
  /\ now = 0
  /\ req = [s \in Slots |-> IdleRequest]
  /\ nreq = 0
  /\ ProfilesEmpty
  /\ AuthIdle

NextFilter ==
  \/ FilterText
  \/ FilterAgain

SpecFilter == InitFilter /\ [][NextFilter]_vars

\* SpecAuth: a registered user with a password (a@x.co), a migrated user
\* without one (m@x.co), a deactivated user (i@x.co) and an address without an
\* account (n@x.co); logins and forgot-password requests; no chat request.
Account(uid, passwordHash, isActive) ==
  Some([uid |-> uid, passwordHash |-> passwordHash, isActive |-> isActive,
        lastLoginAt |-> NULL])

InitAuth ==
  /\ accounts = [e \in Emails |->
       IF e = "a@x.co" THEN Account("u_a", Some(BcryptHash("pw")), TRUE)
       ELSE IF e = "m@x.co" THEN Account("u_m", NULL, TRUE)
       ELSE IF e = "i@x.co" THEN Account("u_i", NULL, FALSE)
       ELSE NULL]
  /\ resets = {}
  /\ env \in [production : BOOLEAN, mailConfigured : BOOLEAN]
  /\ authReq = [s \in Slots |-> AuthIdleRequest]
  /\ authLeft = MaxRequests
  /\ users = Directory("brand", "influencer", "ugc_creator")
  /\ conversations = {}
  /\ messages = {}
  /\ log = << >>
  /\ now = 0
  /\ req = [s \in Slots |-> IdleRequest]
  /\ nreq = 0
  /\ ProfilesEmpty
  /\ FilterIdle

NextAuth ==
  \/ \E s \in Slots, e \in Emails \cup {InvalidEmail}, p \in Passwords : PostLogin(s, e, p)
  \/ \E s \in Slots : LoginFind(s)
  \/ \E s \in Slots : LoginUpdate(s)
  \/ \E s \in Slots, e \in Emails \cup {InvalidEmail} : PostForgotPassword(s, e)
  \/ \E s \in Slots : ForgotFind(s)
  \/ \E s \in Slots : ForgotInsert(s)
  \/ \E s \in Slots : ForgotRespond(s)

SpecAuth == InitAuth /\ [][NextAuth]_vars

\* SpecOnboard: user a is a content_creator or has chosen the role influencer,
\* user ab is a brand; a has no profile data or has submitted the wizard
\* (rows in influencers and instagram_profiles).  Only the migration script
\* writes instagram_detailed_data, which stays empty.
ProfileStores == { {}, {UA} }

InitOnboard ==
  /\ users \in { Directory(ra, "brand", NoUser) : ra \in {"content_creator", "influencer"} }
  /\ \E created \in ProfileStores : influencers = created /\ instagramProfiles = created
  /\ instagramDetailedData = {}
  /\ conversations = {}
  /\ messages = {}
  /\ log = << >>
  /\ now = 0
  /\ req = [s \in Slots |-> IdleRequest]
  /\ nreq = MaxRequests
  /\ AuthIdle
  /\ FilterIdle

Onboarders == {UA, UAB}

NextOnboard ==
  \/ \E s \in Slots : authMiddleware(s)
  \/ \E s \in Slots, u \in Onboarders, r \in NewRoles : PutRole(s, u, r)
  \/ \E s \in Slots : RoleUpdate(s)
  \/ \E s \in Slots, u \in Onboarders : GetProfileStatus(s, u)
  \/ \E s \in Slots : StatusSelectProfile(s)
  \/ \E s \in Slots : StatusSelectDetailed(s)
  \/ \E s \in Slots, u \in Onboarders : GetProfile(s, u)
  \/ \E s \in Slots : ProfileSelectInstagram(s)
  \/ \E s \in Slots : ProfileSelectInfluencer(s)
  \/ \E s \in Slots : ProfileSelectUser(s)
  \/ \E s \in Slots, u \in Onboarders, n \in FullNames : PostInfluencer(s, u, n)
  \/ \E s \in Slots : InfluencerUpsert(s)
  \/ \E s \in Slots : InfluencerSaveInstagram(s)
  \/ \E s \in Slots, u \in Onboarders, n \in InstagramUsernames : PostValidateApify(s, u, n)
  \/ \E s \in Slots : ValidateApifyChecks(s)
  \/ \E s \in Slots, d \in ScrapeOutcomes : ValidateApifyPersist(s, d)
  \/ \E s \in Slots : ValidateApifyRespond(s)

SpecOnboard == InitOnboard /\ [][NextOnboard]_vars

\* SpecIds: conversations are created and read by users whose ids hold the separator
\* of the conversation id: "a", "a_b", "b_c" and "c" (users.uid is TEXT; the
\* ids register() makes start with "u_").  a and a_b are brands or
\* influencers, b_c and c influencers or brands.
IdA == <<97>>
IdAB == <<97, ChUnderscore, 98>>
IdBC == <<98, ChUnderscore, 99>>
IdC == <<99>>
IdUids == { IdA, IdAB, IdBC, IdC }

InitIds ==
  /\ users \in { [u \in IdUids |-> IF u \in {IdA, IdAB} THEN r1 ELSE r2] :
                   r1 \in {"brand", "influencer"}, r2 \in {"brand", "influencer"} }
  /\ conversations = {}
  /\ messages = {}
  /\ log = << >>
  /\ now = 0
  /\ req = [s \in Slots |-> IdleRequest]
  /\ nreq = MaxRequests
  /\ ProfilesEmpty
  /\ AuthIdle
  /\ FilterIdle

NextIds ==
  \/ \E s \in Slots : authMiddleware(s)
  \/ \E s \in Slots, u \in IdUids, p \in IdUids : PostConversation(s, u, p)
  \/ \E s \in Slots : CreateValidate(s)
  \/ \E s \in Slots : CreateSelectExisting(s)
  \/ \E s \in Slots : CreateInsert(s)
  \/ \E s \in Slots, u \in IdUids : GetConversation(s, u, ConversationId(IdA, IdBC))
  \/ \E s \in Slots : SelectConversation(s)
  \/ \E s \in Slots, u \in IdUids : GetConversations(s, u)
  \/ \E s \in Slots : ListConversations(s)

SpecIds == InitIds /\ [][NextIds]_vars

\* SpecSend: a brand (a), an influencer (ab) and a UGC creator (b) send
\* messages to the conversation of a and ab, which exists without a message
\* or with FirstMessage; any query of a send may fail.
SendStores ==
  { [conversations |-> {ChatConversation}, messages |-> {}, log |-> << >>],
    [conversations |-> {UpdateLastMessage(ChatConversation, FirstMessage.message,
                                          FirstMessage.timestamp, FirstMessage.senderId)},
     messages |-> {FirstMessage}, log |-> <<FirstMessage.id>>] }

InitSend ==
  /\ users = Directory("brand", "influencer", "ugc_creator")
  /\ \E st \in SendStores :
       /\ conversations = st.conversations
       /\ messages = st.messages
       /\ log = st.log
  /\ now = 0
  /\ req = [s \in Slots |-> IdleRequest]
  /\ nreq = MaxRequests
  /\ ProfilesEmpty
  /\ AuthIdle
  /\ FilterIdle

NextSend ==
  \/ \E s \in Slots : authMiddleware(s)
  \/ \E s \in Slots, u \in Uids, text \in RawTexts : PostMessage(s, u, ChatId, text)
  \/ \E s \in Slots : SendValidate(s)
  \/ \E s \in Slots : SendInsert(s)
  \/ \E s \in Slots : SendUpdate(s)
  \/ \E s \in Slots : StorageFails(s, "handler")
  \/ \E s \in Slots : StorageFails(s, "insert")
  \/ \E s \in Slots : StorageFails(s, "update")

SpecSend == InitSend /\ [][NextSend]_vars

\* SpecReset: the registered user a@x.co holds three reset tokens, one that is
\* valid for an hour, one that expired before the requests of the model and
\* one that was used; forgot-password requests for a@x.co make more tokens,
\* and reset-password requests carry any of these tokens.
ResetRow(token, expiresAt, used) ==
  [token |-> token, userId |-> "u_a", email |-> "a@x.co", expiresAt |-> expiresAt,
   used |-> used]

FreshToken == MaxRequests + 1
ExpiredToken == MaxRequests + 2
UsedToken == MaxRequests + 3

\* The tokens a reset-password request may carry: the three, and those that
\* forgot-password requests make (unknown until then).
ResetTokens == {FreshToken, ExpiredToken, UsedToken} \cup (1..MaxRequests)

InitReset ==
  /\ accounts = [e \in Emails |->
       IF e = "a@x.co" THEN Account("u_a", Some(BcryptHash("pw")), TRUE) ELSE NULL]
  /\ resets = { ResetRow(FreshToken, HourMs, FALSE), ResetRow(ExpiredToken, 0 - 1, FALSE),
                ResetRow(UsedToken, HourMs, TRUE) }
  /\ env \in [production : BOOLEAN, mailConfigured : {FALSE}]
  /\ authReq = [s \in Slots |-> AuthIdleRequest]
  /\ authLeft = MaxRequests
  /\ users = Directory("brand", "influencer", "ugc_creator")
  /\ conversations = {}
  /\ messages = {}
  /\ log = << >>
  /\ now = 0
  /\ req = [s \in Slots |-> IdleRequest]
  /\ nreq = 0
  /\ ProfilesEmpty
  /\ FilterIdle

NextReset ==
  \/ \E s \in Slots : PostForgotPassword(s, "a@x.co")
  \/ \E s \in Slots : ForgotFind(s)
  \/ \E s \in Slots : ForgotInsert(s)
  \/ \E s \in Slots : ForgotRespond(s)
  \/ \E s \in Slots, k \in ResetTokens, p \in NewPasswords : PostResetPassword(s, k, p)
  \/ \E s \in Slots : ResetFind(s)
  \/ \E s \in Slots : ResetUpdateUser(s)
  \/ \E s \in Slots : ResetMarkUsed(s)

SpecReset == InitReset /\ [][NextReset]_vars

(***************************************************************************)
(* Properties of POST /conversations                                       *)
(***************************************************************************)
\* The requests of a kind that have been answered.
Answered(op) == { s \in Slots : req[s].op = op /\ req[s].pc = "done" }
Succeeded(s) == req[s].res.status \in {200, 201}

\* The set of the two participants of a row.
Pair(c) == { c.participants[1], c.participants[2] }

\* C1: when createOrGetConversation(A, B) and createOrGetConversation(B, A)
\* both succeed, they return the same conversation id.
C1_OrderIndependentId ==
  \A s, t \in Answered("create") :
    ( /\ Succeeded(s) /\ Succeeded(t)
      /\ req[s].uid = req[t].participantId
      /\ req[s].participantId = req[t].uid )
    => req[s].res.conversationId = req[t].res.conversationId

\* A call by b for a (ids in descending order) and the call by a for b have
\* both succeeded.
C1_Witness ==
  \E s, t \in Answered("create") :
    /\ Succeeded(s) /\ Succeeded(t)
    /\ req[s].uid = UB /\ req[s].participantId = UA
    /\ req[t].uid = UA /\ req[t].participantId = UB
    /\ req[s].res.conversationId = <<97, ChUnderscore, 98>>

\* C2: a call for a pair whose conversation exists (in either direction, the
\* roles unchanged, messages sent or not in between) passes the checks, returns
\* the stored record and changes nothing in the conversation store; the pair
\* never has a second row.
C2_SecondCallReturnsRecord ==
  [][ \A s \in Slots :
        ( /\ req[s].op = "create"
          /\ req[s].pc \in {"handler", "existing"}
          /\ req'[s] # req[s]
          /\ ConvRows(ConversationId(req[s].uid, req[s].participantId)) # {} )
        => /\ conversations' = conversations
           /\ messages' = messages
           /\ Cardinality(ConvRows(ConversationId(req[s].uid, req[s].participantId))) = 1
           /\ req[s].pc = "handler" => req'[s].pc = "existing"
           /\ req[s].pc = "existing" =>
                /\ req'[s].pc = "done"
                /\ req'[s].res.status = 200
                /\ req'[s].res.conversationId = ConversationId(req[s].uid, req[s].participantId)
                /\ \E c \in conversations :
                     /\ c.id = req'[s].res.conversationId
                     /\ req'[s].res.conversation = <<ConversationView(c)>> ]_vars

\* ab's call has returned, with status 200, the conversation that a created
\* and that holds a message.
C2_Witness ==
  \E s \in Answered("create") :
    /\ req[s].uid = UAB /\ req[s].participantId = UA
    /\ req[s].res.status = 200
    /\ req[s].res.conversation # NULL
    /\ req[s].res.conversation[1].participants = <<UA, UAB>>
    /\ req[s].res.conversation[1].lastMessage # NULL

\* C3: in every reachable state, concurrent calls included, two conversation
\* rows with the same set of participants are the same row.
C3_OneConversationPerPair ==
  \A c1, c2 \in conversations : Pair(c1) = Pair(c2) => c1 = c2

\* Two concurrent calls for one pair both found no row; one inserted its row
\* and the other failed on the primary key.
C3_Witness ==
  \E s, t \in Answered("create") :
    /\ req[s].res.status = 201
    /\ req[t].res.status = 500
    /\ {req[t].uid, req[t].participantId} = {req[s].uid, req[s].participantId}
    /\ Cardinality(ConvRows(req[s].res.conversationId)) = 1

\* C4: createOrGetConversation(A, A) fails with SelfConversation (status 400,
\* "Cannot create conversation with yourself") whatever A's role and whether or
\* not A was registered, and no row has one user as both participants.
C4_SelfConversationFails ==
  /\ \A s \in Slots :
       (req[s].op = "create" /\ req[s].participantId = req[s].uid) =>
         /\ req[s].pc \in {"auth", "handler", "done"}
         /\ req[s].pc = "done" =>
              /\ req[s].res.status = 400
              /\ req[s].res.error = "Cannot create conversation with yourself"
              /\ req[s].res.conversation = NULL
  /\ \A c \in conversations : c.participants[1] # c.participants[2]

\* Two self calls have been refused: one by b, who was not registered (the
\* middleware gave b the role content_creator), and one by a registered user.
C4_Witness ==
  \E s, t \in Answered("create") :
    /\ req[s].uid = UB /\ req[s].participantId = UB /\ req[s].role = "content_creator"
    /\ req[t].uid = UA /\ req[t].participantId = UA
    /\ req[s].res.status = 400 /\ req[t].res.status = 400
    /\ conversations = {}

\* The pairing rule: one brand and one influencer or UGC creator.
PairingRule(r1, r2) ==
  \E creator \in {"influencer", "ugc_creator"} : {r1, r2} = {"brand", creator}

\* The calls between two distinct registered users that have been answered.
AnsweredPairCalls ==
  { s \in Answered("create") :
      /\ req[s].participantId \in Uids \ {req[s].uid}
      /\ req[s].res.status # 404 }

C6_ExistingNotRevalidated ==
  [][ \A s \in Slots :
        ( /\ req[s].op = "create"
          /\ req[s].pc = "handler"
          /\ req'[s] # req[s]
          /\ ConvRows(ConversationId(req[s].uid, req[s].participantId)) # {} )
        => req'[s].pc = "existing" ]_vars

(***************************************************************************)
(* Properties of sending and listing messages                              *)
(***************************************************************************)
\* The send requests that are at their checks, the conversation exists and
\* the sender is not one of its participants.
NonParticipantSends ==
  { s \in Slots :
      /\ req[s].op = "send" /\ req[s].pc = "handler"
      /\ \E c \in ConvRows(req[s].conversationId) : ~Includes(c.participants, req[s].uid) }

\* C7 as stated: every send by a non-participant to an existing conversation
\* fails with Forbidden (403), stores no message and leaves the conversation
\* (its cached last message) unchanged.
C7_NonParticipantForbidden ==
  [][ \A s \in NonParticipantSends :
        req'[s] # req[s] =>
          /\ req'[s].pc = "done"
          /\ req'[s].res.status = 403
          /\ messages' = messages
          /\ conversations' = conversations ]_vars

\* C7: a send by a non-participant to an existing conversation fails, with
\* Forbidden (403) when the trimmed text is not empty and with ValidationError
\* (400) when it is; it stores no message and leaves the conversation
\* unchanged; every stored message was sent by a participant.
C7_NonParticipantRejected ==
  /\ [][ \A s \in NonParticipantSends :
           req'[s] # req[s] =>
             /\ req'[s].pc = "done"
             /\ req'[s].res.message = NULL
             /\ Len(Trim(req[s].text)) > 0 =>
                  /\ req'[s].res.status = 403
                  /\ req'[s].res.error = "You are not a participant in this conversation"
             /\ Len(Trim(req[s].text)) = 0 =>
                  /\ req'[s].res.status = 400
                  /\ req'[s].res.error = "Message content is required"
             /\ messages' = messages
             /\ conversations' = conversations ]_vars
  /\ [](\A m \in messages : \A c \in ConvRows(m.conversationId) :
          Includes(c.participants, m.senderId))

\* b's send of " @a" to the conversation of a and ab has been refused with 403,
\* and the conversation and its one message are as before.
C7_Witness ==
  \E s \in Answered("send") :
    /\ req[s].uid = UB /\ req[s].text = <<32, 64, 97>>
    /\ req[s].res.status = 403
    /\ messages = {FirstMessage}
    /\ \E c \in conversations : c.lastMessage = <<FirstMessage.message>>

\* C8: right after a send succeeds, the stored message it returns was sent by
\* the caller, and the conversation's lastMessage, lastMessageTime and
\* lastMessageSender are that message's text, timestamp and sender.
C8_CacheAfterSend ==
  [][ \A s \in Slots :
        (req[s].op = "send" /\ req[s].pc = "update" /\ req'[s] # req[s]) =>
          /\ req'[s].pc = "done"
          /\ req'[s].res.status = 201
          /\ req'[s].res.message # NULL
          /\ LET m == req'[s].res.message[1]
             IN /\ m \in messages'
                /\ m.senderId = req[s].uid
                /\ m.conversationId = req[s].conversationId
                /\ m.message = Filtered[Trim(req[s].text)]
                /\ \E c \in conversations' : c.id = m.conversationId
                /\ \A c \in conversations' :
                     c.id = m.conversationId =>
                       /\ c.lastMessage = <<m.message>>
                       /\ c.lastMessageTime = <<m.timestamp>>
                       /\ c.lastMessageSender = <<m.senderId>> ]_vars

\* ab's send of " @a" at time 1 has succeeded: the message is stored masked and
\* the conversation caches it.
C8_Witness ==
  \E s \in Answered("send") :
    /\ req[s].uid = UAB
    /\ req[s].res.status = 201
    /\ req[s].res.isFiltered
    /\ req[s].res.message[1] \in messages
    /\ req[s].res.message[1].timestamp = 1
    /\ \E c \in conversations :
         /\ c.lastMessage = <<Mask>>
         /\ c.lastMessageTime = <<1>>
         /\ c.lastMessageSender = <<UAB>>

\* C9: the messages of every list response are in non-decreasing order of
\* timestamp.
C9_ChronologicalOrder ==
  \A s \in Answered("list") :
    \A i, j \in 1..Len(req[s].res.messages) :
      i < j => req[s].res.messages[i].timestamp <= req[s].res.messages[j].timestamp

\* A list response holds two messages with different timestamps.
C9_Witness ==
  \E s \in Answered("list") :
    /\ req[s].res.status = 200
    /\ Len(req[s].res.messages) = 2
    /\ req[s].res.messages[1].timestamp < req[s].res.messages[2].timestamp

\* The window a paginated query returns: OFFSET (page - 1) * limit, LIMIT limit.
PageWindowOffset(q, page, limit) ==
  SubSeq(q, (page - 1) * limit + 1,
         IF page * limit < Len(q) THEN page * limit ELSE Len(q))

\* C10: a list response is the requested page window, oldest first: the rows
\* from (page - 1) * limit + 1 to page * limit in the order newest first; when more than
\* `limit` messages are stored, the response for page 2 holds none of the
\* messages of the window of page 1.
C10_PageWindow ==
  [][ \A s \in Slots :
        (req[s].op = "list" /\ req[s].pc = "messages" /\ req'[s] # req[s]) =>
          LET r == req[s]
              rows == { m \in messages : m.conversationId = r.conversationId }
              got == req'[s].res.messages
          IN \E q \in OrderByTimestampDesc(rows) :
               /\ got = Reverse(PageWindowOffset(q, r.page, r.limit))
               /\ (r.page = 2 /\ Cardinality(rows) > r.limit) =>
                    \A i \in 1..Len(got) : ~Includes(Limit(q, r.limit), got[i]) ]_vars

(***************************************************************************)
(* Properties of GET /conversations                                        *)
(***************************************************************************)
\* The elements of a sequence.
Range(q) == { q[i] : i \in 1..Len(q) }

\* C11: the response of listConversations(U) holds each stored conversation
\* whose participants include U once, no other conversation, and is ordered by
\* updatedAt descending.
C11_ListConversations ==
  [][ \A s \in Slots :
        (req[s].op = "convs" /\ req[s].pc = "handler" /\ req'[s] # req[s]) =>
          LET got == req'[s].res.conversations
              mine == { c \in conversations :
                          req[s].uid \in {c.participants[1], c.participants[2]} }
          IN /\ req'[s].pc = "done"
             /\ req'[s].res.status = 200
             /\ Range(got) = { ConversationView(c) : c \in mine }
             /\ Len(got) = Cardinality(mine)
             /\ \A i, j \in 1..Len(got) : i < j => got[i].updatedAt >= got[j].updatedAt ]_vars

\* ab has listed both conversations, the one with b (updated by a message at
\* time 1) before the one with a.
C11_Witness ==
  \E s \in Answered("convs") :
    /\ req[s].uid = UAB
    /\ Len(req[s].res.conversations) = 2
    /\ req[s].res.conversations[1].id = ListId
    /\ req[s].res.conversations[1].updatedAt = 1
    /\ req[s].res.conversations[2].participants = <<UA, UAB>>
    /\ Cardinality(conversations) = 2

(***************************************************************************)
(* Properties of the stored messages and of concurrent sends               *)
(***************************************************************************)
\* The message a send request has built, inserted or returned.
MessageOf(s) ==
  IF req[s].pc \in {"insert", "update"} THEN req[s].messageData ELSE req[s].res.message

\* What the filter makes of each text a send may carry, after trimming.
FilteredTrimmed == [raw \in RawTexts |-> filterSensitiveContent(Trim(raw))]

\* C12: the message of every send holds filter(trim(rawText)) as its text and
\* its isFiltered flag is true exactly when that differs from trim(rawText);
\* once inserted it is in the message log with that text; and the send writes
\* the same filtered text to the conversation's lastMessage.
C12_StoredTextIsFiltered ==
  /\ [](\A s \in Slots :
          (req[s].op = "send" /\ MessageOf(s) # NULL) =>
            LET m == MessageOf(s)[1]
                trimmed == Trim(req[s].text)
            IN /\ m.message = FilteredTrimmed[req[s].text]
               /\ m.isFiltered <=> (FilteredTrimmed[req[s].text] # trimmed)
               /\ req[s].pc # "insert" => m \in messages)
  /\ [](\A m \in messages : \E raw \in RawTexts :
          /\ m.message = FilteredTrimmed[raw]
          /\ m.isFiltered <=> (m.message # Trim(raw)))
  /\ [][ \A s \in Slots :
           (req[s].op = "send" /\ req[s].pc = "update" /\ req'[s] # req[s]) =>
             \A c \in conversations' :
               c.id = req[s].conversationId =>
                 c.lastMessage = <<FilteredTrimmed[req[s].text]>> ]_vars

\* The text " @a" was sent: the stored message and the conversation's
\* lastMessage hold the mask, not "@a", and the message is flagged.
C12_Witness ==
  \E s \in Answered("send") :
    /\ req[s].text = <<32, 64, 97>>
    /\ req[s].res.status = 201
    /\ req[s].res.message[1] \in messages
    /\ req[s].res.message[1].message = Mask
    /\ req[s].res.message[1].isFiltered
    /\ \A m \in messages : m.message # <<64, 97>>
    /\ \E c \in conversations : c.lastMessage = <<Mask>>

\* C13: message insert and cache update of a send are one atomic unit: the
\* step that puts a message into the message log also sets the conversation's
\* lastMessage and lastMessageTime to that message, so that no reader running
\* between two steps finds the message in the log with the cache as it was
\* before the send.
C13_AtomicAppendAndCache ==
  [][ \A m \in messages' \ messages :
        \E c \in conversations' :
          /\ c.id = m.conversationId
          /\ c.lastMessage = <<m.message>>
          /\ c.lastMessageTime = <<m.timestamp>> ]_vars

\* The position of a message id in the message log.
LogIndex(id) == CHOOSE i \in 1..Len(log) : log[i] = id

\* The successful sends that have been answered.
Sent == { s \in Answered("send") : req[s].res.status = 201 }

\* C14: a send by a participant with a non-blank text to an existing
\* conversation succeeds under every interleaving with another send; its
\* message is in the message log, the messages of two sends are two entries of
\* the log, and no step removes a message from the log.
C14_ConcurrentSendsPersist ==
  /\ [](\A s \in Answered("send") :
          ( /\ req[s].uid \in {UA, UAB}
            /\ Len(Trim(req[s].text)) > 0
            /\ req[s].res.status # 404 )
          => /\ s \in Sent
             /\ req[s].res.message[1] \in messages
             /\ \E i \in 1..Len(log) : log[i] = req[s].res.message[1].id)
  /\ [](\A s, t \in Sent :
          s # t => req[s].res.message[1].id # req[t].res.message[1].id)
  /\ [](/\ Cardinality(messages) = Len(log)
        /\ \A i, j \in 1..Len(log) : i # j => log[i] # log[j]
        /\ \A m \in messages : \E i \in 1..Len(log) : log[i] = m.id)
  /\ [][ /\ messages \subseteq messages'
         /\ Len(log) <= Len(log')
         /\ SubSeq(log', 1, Len(log)) = log ]_vars

\* Two sends, by ab and by a, have interleaved and both completed: the log
\* holds the earlier message, then ab's, then a's, and ab's send wrote the
\* cache last.
C14_Witness ==
  \E s, t \in Sent :
    /\ req[s].uid = UAB /\ req[t].uid = UA
    /\ log = <<FirstMessage.id, req[s].res.message[1].id, req[t].res.message[1].id>>
    /\ {FirstMessage, req[s].res.message[1], req[t].res.message[1]} = messages
    /\ \E c \in conversations : c.lastMessageSender = <<UAB>>

\* C15: when no send is between its INSERT and its UPDATE, the cache of a
\* conversation with messages is the text, timestamp and sender of the message
\* that was appended to the message log last.
C15_CacheOfLastCommit ==
  (\A s \in Slots : ~(req[s].op = "send" /\ req[s].pc = "update")) =>
    \A c \in conversations :
      LET mine == { m \in messages : m.conversationId = c.id }
      IN mine # {} =>
           LET last == CHOOSE m \in mine : \A n \in mine : LogIndex(n.id) <= LogIndex(m.id)
           IN /\ c.lastMessage = <<last.message>>
              /\ c.lastMessageTime = <<last.timestamp>>
              /\ c.lastMessageSender = <<last.senderId>>

(***************************************************************************)
(* Properties of the content filter                                        *)
(***************************************************************************)
\* The regex has a match in the text.
Matches(r, s) == \E i \in 1..(Len(s) + 1) : Len(Ends(r, s, i)) > 0

\* The text holds an email address, a phone number, the name of a messaging
\* app or an @handle.
Sensitive(s) ==
  \/ Matches(emailRegex, s)
  \/ Matches(phoneRegex, s)
  \/ Matches(whatsappRegex, s)
  \/ Matches(socialRegex, s)

\* C16: the content filter is idempotent: filter(filter(x)) = filter(x).
C16_FilterIdempotent ==
  refilteredText # NULL => refilteredText = filteredText

\* C17: the output of the content filter holds no email address, phone
\* number, messaging app or @handle, and a text that holds none of them is
\* returned unchanged.
C17_FilterComplete ==
  filteredText # NULL =>
    /\ ~Sensitive(filteredText[1])
    /\ ~Sensitive(rawText) => filteredText[1] = rawText

AuthAnswered(op) == { s \in Slots : authReq[s].op = op /\ authReq[s].pc = "done" }

C19_ForgotPasswordUniform ==
  \A s, t \in AuthAnswered("forgot") :
    ( /\ isEmail(authReq[s].email) /\ isEmail(authReq[t].email)
      /\ accounts[authReq[s].email] # NULL
      /\ accounts[authReq[t].email] = NULL )
    => authReq[s].res = authReq[t].res

(***************************************************************************)
(* Properties of the onboarding of influencers                             *)
(***************************************************************************)
\* The step of request s that sends its response.
Answers(s) == req[s].pc # "done" /\ req'[s].pc = "done"

\* The step of request s that runs the first query of its handler.
FirstQuery(s) == req[s].pc = "handler" /\ req'[s].pc # "handler"

\* A create-influencer-profile call of user u has succeeded: both of its
\* upserts are done.
ProfileCreated(u) == u \in influencers /\ u \in instagramProfiles

\* No create-influencer-profile call of user u has written anything yet.
BeforeCreate(u) == u \notin influencers

\* C20: for a user with role influencer, (1) as long as no
\* create-influencer-profile call of the user has written the profile,
\* profile-status answers requiresOnboarding = true and GET /influencer/profile
\* answers 404; (2) a profile-status request or GET /influencer/profile
\* request handled after a successful create-influencer-profile call answers
\* requiresOnboarding = false, respectively 200.
C20_OnboardingGate ==
  /\ [][\A s \in Slots :
         LET r == req[s]
         IN /\ (r.op = "status" /\ r.role = "influencer" /\ Answers(s) /\ BeforeCreate(r.uid))
                 => req'[s].res.requiresOnboarding
            /\ (r.op = "profile" /\ users[r.uid] = "influencer" /\ Answers(s)
                  /\ BeforeCreate(r.uid))
                 => req'[s].res.status = 404
            /\ (r.op = "status" /\ r.role = "influencer" /\ FirstQuery(s)
                  /\ ProfileCreated(r.uid))
                 => req'[s].pc = "done" /\ ~req'[s].res.requiresOnboarding
            /\ (r.op = "profile" /\ FirstQuery(s) /\ ProfileCreated(r.uid))
                 => req'[s].profRes = 1]_vars
  /\ [](\A s \in Slots :
          (req[s].op = "profile" /\ req[s].pc = "done" /\ req[s].profRes = 1)
            => req[s].res.status = 200)

(***************************************************************************)
(* Properties of the conversation id                                       *)
(***************************************************************************)
\* C21: the calls of POST /conversations of two different unordered pairs of
\* users never get the same conversation id, and the conversation a call
\* returns is the one of the caller and the participant named in the call.
C21_CollisionFree ==
  /\ \A s, t \in Answered("create") :
       (Succeeded(s) /\ Succeeded(t)
          /\ {req[s].uid, req[s].participantId} # {req[t].uid, req[t].participantId})
         => req[s].res.conversationId # req[t].res.conversationId
  /\ \A s \in Answered("create") :
       Succeeded(s) =>
         Pair(req[s].res.conversation[1]) = {req[s].uid, req[s].participantId}

(***************************************************************************)
(* Properties of the last-message cache and of the frame of a send         *)
(***************************************************************************)
\* C22: in every state the cache of a conversation points to a message of
\* its log: when lastMessage is set, a stored message of the conversation has
\* that text, the timestamp lastMessageTime and the sender lastMessageSender.
C22_CachePointsToMessage ==
  \A c \in conversations :
    c.lastMessage # NULL =>
      \E m \in messages :
        /\ m.conversationId = c.id
        /\ c.lastMessage = Some(m.message)
        /\ c.lastMessageTime = Some(m.timestamp)
        /\ c.lastMessageSender = Some(m.senderId)

\* ab's send of " @a" at time 1 has set the cache after a send of a failed at
\* its UPDATE: the cache points to ab's stored message.
C22_Witness ==
  /\ \E s \in Answered("send") : req[s].uid = UA /\ req[s].res.status = 500
  /\ \E s \in Answered("send") :
       /\ req[s].uid = UAB /\ req[s].res.status = 201
       /\ \E c \in conversations :
            /\ c.lastMessage = Some(Mask)
            /\ c.lastMessageSender = Some(UAB)
            /\ c.lastMessageTime = Some(1)
  /\ Cardinality(messages) >= 2

\* C23: updatedAt and lastMessageTime of a conversation never decrease, over
\* any interleaving of sends.
C23_UpdatedAtMonotonic ==
  [][\A c \in conversations : \A d \in conversations' :
       d.id = c.id =>
         /\ d.updatedAt >= c.updatedAt
         /\ (c.lastMessageTime # NULL =>
               d.lastMessageTime # NULL /\ d.lastMessageTime[1] >= c.lastMessageTime[1])]_vars

(***************************************************************************)
(* Properties of who may read                                              *)
(***************************************************************************)
\* The conversations a response discloses.
Disclosed(s) == Range(req[s].res.conversation) \cup Range(req[s].res.conversations)

\* C24: a conversation record or the messages of a conversation are returned
\* to participants only: every conversation in the response of POST
\* /conversations, GET /conversations/:id, GET /conversations/:id/messages and
\* GET /conversations has the caller among its participants, and the messages
\* returned are those of such a conversation.
C24_OnlyParticipantsRead ==
  \A s \in Slots :
    (req[s].pc = "done" /\ req[s].op \in {"create", "conv", "list", "convs"}) =>
      /\ \A c \in Disclosed(s) : req[s].uid \in Pair(c)
      /\ \A i \in 1..Len(req[s].res.messages) :
           \E c \in conversations :
             /\ c.id = req[s].res.messages[i].conversationId
             /\ req[s].uid \in Pair(c)

\* The fields of a conversation a send must leave alone.
Fixed(c) ==
  [id |-> c.id, participants |-> c.participants,
   participantDetails |-> c.participantDetails, createdAt |-> c.createdAt]

\* Request s takes a step from pc p to pc q.
Moves(s, p, q) == req[s].pc = p /\ req'[s].pc = q

\* C25: a successful send appends exactly one message (at its INSERT) and its
\* UPDATE changes only lastMessage, lastMessageTime, lastMessageSender and
\* updatedAt of the target conversation: id, participants, participantDetails
\* and createdAt of that conversation, every other conversation and every
\* stored message stay as they are; no step of any chat operation removes or
\* changes a stored message, and no other step of a send writes anything.
C25_SendFrame ==
  [][/\ messages \subseteq messages'
     /\ \A s \in Slots :
          (req[s].op = "send" /\ req'[s] # req[s]) =>
            /\ IF Moves(s, "insert", "update")
                 THEN /\ Cardinality(messages' \ messages) = 1
                      /\ messages' \ messages = {req[s].messageData[1]}
                 ELSE messages' = messages
            /\ IF Moves(s, "update", "done")
                 THEN /\ { Fixed(c) : c \in conversations' } = { Fixed(c) : c \in conversations }
                      /\ Cardinality(conversations') = Cardinality(conversations)
                      /\ \A c \in conversations :
                           c.id # req[s].conversationId => c \in conversations'
                      /\ (req'[s].res.status = 201 => req'[s].res.message[1] \in messages)
                 ELSE conversations' = conversations]_vars

\* ab's send to the conversation with b has succeeded: its message is stored,
\* the conversation's cache is set and the conversation with a is as it was
\* opened.
C25_Witness ==
  \E s \in Answered("send") :
    /\ req[s].res.status = 201
    /\ req[s].conversationId = ListId
    /\ req[s].res.message[1] \in messages
    /\ ChatConversation \in conversations
    /\ \E c \in conversations :
         /\ c.id = ListId /\ c.lastMessage # NULL
         /\ Fixed(c) = Fixed(ListConversation)

(***************************************************************************)
(* Properties of the stored conversations                                  *)
(***************************************************************************)
\* C26: in every state each stored conversation has exactly two distinct
\* participants, and its participantDetails snapshot records role brand for
\* one of them and role influencer or ugc_creator for the other.
C26_TwoParticipantsOneBrand ==
  \A c \in conversations :
    /\ Len(c.participants) = 2
    /\ c.participants[1] # c.participants[2]
    /\ DOMAIN c.participantDetails = Pair(c)
    /\ PairingRule(c.participantDetails[c.participants[1]],
                   c.participantDetails[c.participants[2]])

\* The conversation of brand a and ab is stored with ab as influencer in its
\* snapshot, and ab's role has been changed to brand since.
C26_Witness ==
  \E c \in conversations :
    /\ Pair(c) = {UA, UAB}
    /\ c.participantDetails[UAB] = "influencer"
    /\ users[UAB] = "brand"

\* C27: a send that answers with a failure has written nothing: when the
\* failure is returned no message of that send is in the message log, and the
\* conversations are as they were.
C27_FailedSendWritesNothing ==
  [][\A s \in Slots :
       (req[s].op = "send" /\ req[s].pc # "done" /\ req'[s].pc = "done"
          /\ req'[s].res.status # 201)
         => /\ \A m \in messages' : m.id # req[s].serial
            /\ conversations' = conversations]_vars

(***************************************************************************)
(* Properties of concurrent requests                                       *)
(***************************************************************************)
\* C28: of two calls of POST /conversations for the same valid pair, made
\* while the pair has no conversation, neither fails: no call that has passed
\* the checks is answered with an error, and two answered calls of the same
\* pair return the same conversation.
C28_ConcurrentCreatesSucceed ==
  /\ \A s \in Answered("create") : req[s].res.status \notin {409, 500}
  /\ \A s, t \in Answered("create") :
       (Succeeded(s) /\ Succeeded(t)
          /\ {req[s].uid, req[s].participantId} = {req[t].uid, req[t].participantId})
         => req[s].res.conversation = req[t].res.conversation

\* C29: PUT /role changes a stored role only from content_creator, and only
\* to influencer or ugc_creator; a stored role other than content_creator is
\* never changed again, whatever PUT /role requests the user makes.
C29_RoleChosenOnce ==
  [][\A u \in DOMAIN users :
       users'[u] # users[u] =>
         /\ users[u] = "content_creator"
         /\ users'[u] \in {"influencer", "ugc_creator"}]_vars

(***************************************************************************)
(* Properties of the password reset                                        *)
(***************************************************************************)
\* The step in which reset request s changes the password.
ChangesPassword(s) ==
  authReq[s].op = "reset" /\ authReq[s].pc = "password" /\ authReq'[s].pc = "used"

\* C30: a reset token changes the password at most once and only while it is
\* valid: of the reset-password requests that carry the same token at most one
\* succeeds, and no request changes the password with a token that is marked
\* used or whose expiry time has passed.
C30_TokenSingleUse ==
  /\ [](\A s, t \in Slots :
          (s # t /\ authReq[s].op = "reset" /\ authReq[t].op = "reset"
             /\ authReq[s].pc \in {"used", "done"} /\ authReq[s].res.status \in {0, 200}
             /\ authReq[t].pc \in {"used", "done"} /\ authReq[t].res.status \in {0, 200})
            => authReq[s].resetToken # authReq[t].resetToken)
  /\ [][\A s \in Slots :
          ChangesPassword(s) =>
            \A row \in ResetRows(authReq[s].resetToken[1]) :
              ~row.used /\ row.expiresAt >= now]_vars

====
